---- MODULE Spec2Model ----
(***************************************************************************)
(* A model of the competitor-ad war room backend:                          *)
(*   backend/database.py    - the "ads" table, upsert_ad, get_ads          *)
(*   backend/sample_data.py - generate_sample_ads, seed_all_sample_data    *)
(*   backend/competitors.py - BRANDS, get_all_competitors,                 *)
(*                            get_competitors_for_brand                    *)
(*   backend/meta_api.py    - MetaAdLibraryClient                          *)
(*   backend/ai_analyzer.py - _call_ai, classify_ad, analyze_batch,        *)
(*                            generate_weekly_brief                        *)
(* Each component has its own specification (SpecDb, SpecFetch, SpecAI,    *)
(* SpecFallback for _fallback_batch_analysis on batches of up to MaxBatch  *)
(* ads, SpecSample for generate_sample_ads, SpecStore for the whole        *)
(* persistence layer on enriched ads, SpecSeed for the registry of         *)
(* backend/competitors.py and seed_all_sample_data, SpecConcurrent for     *)
(* callers whose upsert_ad calls interleave); the variables of the other   *)
(* components stay at their initial values.                                *)
(***************************************************************************)
EXTENDS Integers, Sequences, FiniteSets, TLC

VARIABLES
    table,      \* the rows of the "ads" table (a set of AdRecord rows)
    supplied,   \* history: per id, the value each field was last given by an
                \* upsert_ad call that returned (Absent: never given)
    upserted,   \* history: the ids for which an upsert_ad call has returned
    db_call,    \* the last persistence-layer call and its outcome
    briefs,     \* the rows of the "weekly_briefs" table, oldest first
    runs,       \* the number of rows of the "analysis_runs" table
    \* MetaAdLibraryClient (backend/meta_api.py)
    f_pc,       \* "idle", "loop" (inside fetch_all_ads_for_competitor), "done"
    max_pages,  \* fetch_all_ads_for_competitor: its argument
    page_count, \* fetch_all_ads_for_competitor: its local page_count
    result,     \* fetch_all_ads_for_competitor: its local result
    ads,        \* fetch_all_ads_for_competitor: its local ads
    trace,      \* what the running client operation did: sleeps and requests
    pages,      \* what search_ads returned, call by call, in this operation
    client_ret, \* what the client operation returned
    \* AI analysis engine (backend/ai_analyzer.py)
    GEMINI_API_KEY, \* whether the credential is configured (non-empty)
    ai_pc,      \* "idle" or "done"
    ai_op,      \* the operation invoked
    ai_in,      \* its arguments
    ai_contacts,\* how often this invocation called the external model
    ai_text,    \* what _call_ai returned to this invocation
    ai_ret,     \* what the operation returned
    \* _fallback_batch_analysis on its own (backend/ai_analyzer.py)
    fb_ads,     \* the batch of ad dicts its caller has put together
    fb_pc,      \* "idle" or "done"
    fb_ret,     \* what _fallback_batch_analysis(fb_ads, ...) returned
    \* generate_sample_ads (backend/sample_data.py)
    sg_pc,      \* "idle", "loop" (inside generate_sample_ads), "done",
                \* "raised"
    sg_args,    \* its arguments competitor_name, brand_key, count,
                \* days_range, and its local now
    sg_ads,     \* its local ads, the list it returns
    \* the competitor registry (backend/competitors.py) and
    \* seed_all_sample_data (backend/sample_data.py)
    BRANDS,     \* the registry, a dict in insertion order: a sequence
    reg_call,   \* the last call of a registry function and what it returned
    seed_pc,    \* "idle", "loop" (inside seed_all_sample_data), "done"
    seed_rest,  \* seed_all_sample_data: the competitors its loops have left
    all_ads,    \* seed_all_sample_data: its local all_ads
    clock,      \* the wall clock, in seconds
    generated,  \* history: the lists that the caller's generate_sample_ads
                \* calls returned since it last seeded
    \* callers that run upsert_ad at the same time (backend/database.py)
    callers     \* per caller: its position in upsert_ad, its ad_data, the
                \* row its lookup loaded, and (history) the row its commit
                \* made and whether a committed state of the row since its
                \* lookup held all of its ad_data

dbvars == <<table, supplied, upserted, db_call, briefs, runs>>
fetchvars ==
    <<f_pc, max_pages, page_count, result, ads, trace, pages, client_ret>>
aivars ==
    <<GEMINI_API_KEY, ai_pc, ai_op, ai_in, ai_contacts, ai_text, ai_ret>>
fbvars == <<fb_ads, fb_pc, fb_ret>>
sgvars == <<sg_pc, sg_args, sg_ads>>
regvars == <<BRANDS, reg_call, seed_pc, seed_rest, all_ads, clock, generated>>
othervars_db == <<fetchvars, aivars, fbvars, sgvars, regvars, callers>>
othervars_fetch == <<dbvars, aivars, fbvars, sgvars, regvars, callers>>
othervars_ai == <<dbvars, fetchvars, fbvars, sgvars, regvars, callers>>
othervars_fb == <<dbvars, fetchvars, aivars, sgvars, regvars, callers>>
othervars_sg == <<dbvars, fetchvars, aivars, fbvars, regvars, callers>>
othervars_reg == <<dbvars, fetchvars, aivars, fbvars, sgvars, callers>>
othervars_cc ==
    <<supplied, upserted, db_call, briefs, runs, fetchvars, aivars, fbvars,
      sgvars, regvars>>
vars == <<dbvars, fetchvars, aivars, fbvars, sgvars, regvars, callers>>

-----------------------------------------------------------------------------
(* Values.  Python's None is NoneStr for a text value and NoneTime for a   *)
(* time value; a key that a dict does not hold is Absent / AbsentTime.     *)

NoneStr == "None"
Absent == "<absent>"

\* A time value: a datetime object, an ISO-8601 string (strftime's result),
\* or None.  t counts days.
DateTime(t) == [kind |-> "datetime", t |-> t]
IsoString(t) == [kind |-> "str", t |-> t]
NoneTime == [kind |-> "none", t |-> 0]
AbsentTime == [kind |-> "absent", t |-> 0]

\* An ad id.  generate_sample_ads builds
\*   f"sample_{competitor_name.lower().replace(' ', '_')}_{i}_{int(now.timestamp())}";
\* an id of the ad library is an opaque string (kind "meta").
SampleId(slug, i, ts) == [kind |-> "sample", slug |-> slug, i |-> i, ts |-> ts]
MetaId(n) == [kind |-> "meta", slug |-> "", i |-> n, ts |-> 0]

\* The inputs the model draws from.
MetaIds == {MetaId(1), MetaId(2)}
CompetitorNames == {"Pilgrim", "Beardo"}
AdBodies == {"body one", "body two"}
MediaTypes == {"IMAGE", "VIDEO", "CAROUSEL"}
StartDays == {1, 2}
SampleIndexes == {0}
SampleStamps == {7}

-----------------------------------------------------------------------------
(* backend/database.py: AdRecord.  The columns the model carries.          *)

SchemaFields ==
    {"id", "competitor_name", "ad_body", "media_type", "ad_delivery_start_time",
     "brand_key", "theme", "is_active", "is_top_performer"}
DataFields == SchemaFields \ {"id"}
TimeFields == {"ad_delivery_start_time"}

\* A key of ad_data that is no attribute of AdRecord (generate_sample_ads'
\* "_competitor", "_theme", ...).
UnknownKeys == {"_competitor"}
AdDataKeys == SchemaFields \cup UnknownKeys

AbsentId == [kind |-> "absent", slug |-> "", i |-> 0, ts |-> 0]

AbsentOf(k) ==
    IF k \in TimeFields THEN AbsentTime
    ELSE IF k = "id" THEN AbsentId ELSE Absent

\* A column with no default= is NULL in a row that was built without it;
\* is_active has default=True and is_top_performer default=False (a
\* boolean is "True" or "False").
ColumnDefault(k) ==
    IF k \in TimeFields THEN NoneTime
    ELSE IF k = "is_active" THEN "True"
    ELSE IF k = "is_top_performer" THEN "False"
    ELSE NoneStr

\* `k in ad_data`
HasKey(ad_data, k) == ad_data[k] # AbsentOf(k)

\* hasattr(AdRecord, k) / hasattr(existing, k)
HasAttr(k) == k \in SchemaFields

-----------------------------------------------------------------------------
(* backend/sample_data.py: generate_sample_ads, one record of its list.    *)

\* competitor_name.lower().replace(' ', '_')
Slug(competitor_name) ==
    CASE competitor_name = "Pilgrim" -> "pilgrim"
      [] competitor_name = "Mamaearth" -> "mamaearth"
      [] competitor_name = "Dot & Key" -> "dot_&_key"
      [] competitor_name = "Plum Goodness" -> "plum_goodness"
      [] competitor_name = "Minimalist" -> "minimalist"
      [] competitor_name = "WOW Skin Science" -> "wow_skin_science"
      [] competitor_name = "mCaffeine" -> "mcaffeine"
      [] competitor_name = "OZiva" -> "oziva"
      [] competitor_name = "The Man Company" -> "the_man_company"
      [] competitor_name = "Bombay Shaving Company" -> "bombay_shaving_company"
      [] competitor_name = "Beardo" -> "beardo"
      [] competitor_name = "USTRAA" -> "ustraa"
      [] competitor_name = "Traya Health" -> "traya_health"
      [] competitor_name = "Vedix" -> "vedix"
      [] competitor_name = "BoldFit" -> "boldfit"
      [] competitor_name = "Ustraa by Happily Unmarried" -> "ustraa_by_happily_unmarried"
      [] competitor_name = "Mamaearth Baby" -> "mamaearth_baby"
      [] competitor_name = "Himalaya Baby" -> "himalaya_baby"
      [] competitor_name = "Bey Bee" -> "bey_bee"
      [] competitor_name = "Chicco India" -> "chicco_india"
      [] competitor_name = "Horlicks" -> "horlicks"
      [] competitor_name = "Complan" -> "complan"
      [] competitor_name = "Pediasure" -> "pediasure"
      [] competitor_name = "The Moms Co" -> "the_moms_co"
      [] competitor_name = "PILGRIM" -> "pilgrim"
      [] OTHER -> "other"

\* The i-th record of generate_sample_ads(competitor_name, ...), generated at
\* `now`, with the random draws media_type and days_ago_start.  Of its keys
\* the model keeps those that are columns of AdRecord, and "_competitor":
\* the record holds the competitor under "page_name" and "_competitor" and
\* has no "competitor_name" and no "ad_body" key; its times are strftime
\* strings.
GenerateSampleAd(competitor_name, i, now, media_type, days_ago_start) ==
    [id |-> SampleId(Slug(competitor_name), i, now),
     competitor_name |-> Absent,
     ad_body |-> Absent,
     media_type |-> media_type,
     ad_delivery_start_time |-> IsoString(now - days_ago_start),
     brand_key |-> Absent, theme |-> Absent, is_active |-> Absent,
     is_top_performer |-> Absent,
     _competitor |-> competitor_name]

\* days_range: int = 90
DaysRange == 90

\* The random draws of one turn of the loop: media_type of MEDIA_TYPES,
\* days_ago_start = randint(1, days_range), is_active = random() > 0.3 and,
\* for an ad that stopped, randint(7, 45) days from start to stop (0 here
\* for an active ad, which has no such draw).
SampleDraws(days_range) ==
    [media_type : MediaTypes,
     days_ago_start : {1, 30, 31, days_range} \cap (1..days_range),
     is_active : {TRUE}, stop_after : {0}]
    \cup [media_type : MediaTypes,
          days_ago_start : {1, days_range} \cap (1..days_range),
          is_active : {FALSE}, stop_after : {7, 30, 31, 45}]

\* run_days = (now - start_date).days if is_active
\*            else (stop_date - start_date).days
RunDays(now, start_date, is_active, stop_date) ==
    IF is_active THEN now - start_date ELSE stop_date - start_date

\* A variant of SampleRecord with is_top_performer = run_days >= 30.
SampleRecord_ThirtyCounts(competitor_name, brand_key, i, now, draw) ==
    LET start_date == now - draw.days_ago_start
        stop_date == start_date + draw.stop_after
        run_days == RunDays(now, start_date, draw.is_active, stop_date)
    IN [id |-> SampleId(Slug(competitor_name), i, now),
        page_name |-> competitor_name,
        ad_delivery_start_time |-> IsoString(start_date),
        ad_delivery_stop_time |->
            IF draw.is_active THEN NoneTime ELSE IsoString(stop_date),
        media_type |-> draw.media_type,
        _is_active |-> draw.is_active,
        _run_days |-> run_days,
        _is_top_performer |-> run_days >= 30,
        _brand_key |-> brand_key,
        _competitor |-> competitor_name]

\* The record the loop of generate_sample_ads builds in turn i with the
\* draws `draw`: its keys that tell when and how long the ad ran.
SampleRecord(competitor_name, brand_key, i, now, draw) ==
    LET start_date == now - draw.days_ago_start
        stop_date == start_date + draw.stop_after
        run_days == RunDays(now, start_date, draw.is_active, stop_date)
    IN [id |-> SampleId(Slug(competitor_name), i, now),
        page_name |-> competitor_name,
        ad_delivery_start_time |-> IsoString(start_date),
        ad_delivery_stop_time |->
            IF draw.is_active THEN NoneTime ELSE IsoString(stop_date),
        media_type |-> draw.media_type,
        _is_active |-> draw.is_active,
        _run_days |-> run_days,
        _is_top_performer |-> run_days > 30,
        _brand_key |-> brand_key,
        _competitor |-> competitor_name]

MaxCount == 2
NoArgs ==
    [competitor_name |-> "", brand_key |-> "", count |-> 0, days_range |-> 0,
     now |-> 0]

\* The callers' pairs of competitor_name and brand_key: of the registry,
\* and known to neither the registry nor the product table.
SampleTargets == {<<"Pilgrim", "bebodywise">>, <<"Acme", "mosaic">>}

\* generate_sample_ads(competitor_name, brand_key, count, days_range):
\* ads = [] and now = datetime.now().  The template pool and the product
\* names are looked up with a default (the else branch of line 192, the
\* .get of line 222).
GenerateSampleAds ==
    /\ sg_pc = "idle"
    /\ \E target \in SampleTargets, count \in 0..MaxCount, days_range \in {0, DaysRange} :
         sg_args' = [competitor_name |-> target[1], brand_key |-> target[2],
                     count |-> count, days_range |-> days_range, now |-> 100]
    /\ sg_ads' = <<>>
    /\ sg_pc' = "loop"
    /\ UNCHANGED othervars_sg

\* One turn of `for i in range(count)`: i is the number of records so far.
SampleLoop ==
    /\ sg_pc = "loop"
    /\ Len(sg_ads) < sg_args.count
    /\ sg_args.days_range >= 1
    /\ \E draw \in SampleDraws(sg_args.days_range) :
         sg_ads' = Append(sg_ads,
                          SampleRecord(sg_args.competitor_name,
                                       sg_args.brand_key, Len(sg_ads),
                                       sg_args.now, draw))
    /\ UNCHANGED <<sg_pc, sg_args>>
    /\ UNCHANGED othervars_sg

\* random.randint(1, days_range) raises ValueError (empty range) when
\* days_range is less than 1, and nothing catches it.
SampleRaises ==
    /\ sg_pc = "loop"
    /\ Len(sg_ads) < sg_args.count
    /\ sg_args.days_range < 1
    /\ sg_pc' = "raised"
    /\ UNCHANGED <<sg_args, sg_ads>>
    /\ UNCHANGED othervars_sg

\* range(count) is used up: return ads.
SampleReturn ==
    /\ sg_pc = "loop"
    /\ Len(sg_ads) >= sg_args.count
    /\ sg_pc' = "done"
    /\ UNCHANGED <<sg_args, sg_ads>>
    /\ UNCHANGED othervars_sg

\* The caller takes the list.
SampleCallerContinues ==
    /\ sg_pc \in {"done", "raised"}
    /\ sg_pc' = "idle"
    /\ sg_args' = NoArgs
    /\ sg_ads' = <<>>
    /\ UNCHANGED othervars_sg

InitSample ==
    /\ sg_pc = "idle"
    /\ sg_args = NoArgs
    /\ sg_ads = <<>>

NextSample ==
    \/ GenerateSampleAds \/ SampleLoop \/ SampleRaises \/ SampleReturn
    \/ SampleCallerContinues

-----------------------------------------------------------------------------
(* backend/competitors.py: BRANDS, get_all_competitors,                    *)
(* get_competitors_for_brand.  Of a competitor entry the model keeps the   *)
(* name.                                                                   *)

Competitor(name) == [name |-> name]

Brand(key, display_name, names) ==
    [key |-> key, display_name |-> display_name,
     competitors |-> [n \in DOMAIN names |-> Competitor(names[n])]]

\* BRANDS as the module defines it.
Registry ==
    << Brand("bebodywise", "Be Bodywise",
             <<"Pilgrim", "Mamaearth", "Dot & Key", "Plum Goodness",
               "Minimalist", "WOW Skin Science", "mCaffeine", "OZiva">>),
       Brand("manmatters", "Man Matters",
             <<"The Man Company", "Bombay Shaving Company", "Beardo",
               "USTRAA", "Traya Health", "Vedix", "BoldFit",
               "Ustraa by Happily Unmarried">>),
       Brand("littlejoys", "Little Joys",
             <<"Mamaearth Baby", "Himalaya Baby", "Bey Bee", "Chicco India",
               "Horlicks", "Complan", "Pediasure", "The Moms Co">>) >>

\* {"brand": brand_key, "brand_display": ..., **comp}
Entry(brand, comp) ==
    [brand |-> brand.key, brand_display |-> brand.display_name,
     name |-> comp.name]

RECURSIVE Flatten(_)
Flatten(seqs) ==
    IF seqs = <<>> THEN <<>> ELSE Head(seqs) \o Flatten(Tail(seqs))

\* A variant of get_all_competitors that labels every entry with the brand
\* it met first.
get_all_competitors_FirstBrand(brands) ==
    Flatten([b \in DOMAIN brands |->
                [c \in DOMAIN brands[b].competitors |->
                    Entry(brands[1], brands[b].competitors[c])]])

\* get_all_competitors(): for each brand in dict order, for each of its
\* competitors in list order, one entry.
get_all_competitors(brands) ==
    Flatten([b \in DOMAIN brands |->
                [c \in DOMAIN brands[b].competitors |->
                    Entry(brands[b], brands[b].competitors[c])]])

\* BRANDS.get(brand_key, {}).get("competitors", [])
get_competitors_for_brand(brands, brand_key) ==
    IF \E b \in DOMAIN brands : brands[b].key = brand_key
    THEN brands[CHOOSE b \in DOMAIN brands : brands[b].key = brand_key].competitors
    ELSE <<>>

NoRegCall == [op |-> "none", brand_key |-> NoneStr, ret |-> <<>>]

\* The brand keys callers pass: the registry's, and keys it does not hold.
BrandKeyArgs == {"bebodywise", "manmatters", "littlejoys", "mosaic", "", "BeBodywise"}

GetAllCompetitors ==
    /\ seed_pc = "idle"
    /\ reg_call' = [op |-> "get_all_competitors", brand_key |-> NoneStr,
                    ret |-> get_all_competitors(BRANDS)]
    /\ UNCHANGED <<BRANDS, seed_pc, seed_rest, all_ads, clock, generated>>
    /\ UNCHANGED othervars_reg

GetCompetitorsForBrand ==
    /\ seed_pc = "idle"
    /\ \E brand_key \in BrandKeyArgs :
         reg_call' = [op |-> "get_competitors_for_brand",
                      brand_key |-> brand_key,
                      ret |-> get_competitors_for_brand(BRANDS, brand_key)]
    /\ UNCHANGED <<BRANDS, seed_pc, seed_rest, all_ads, clock, generated>>
    /\ UNCHANGED othervars_reg

-----------------------------------------------------------------------------
(* backend/sample_data.py: seed_all_sample_data, and generate_sample_ads   *)
(* as its callers see it.  Of a generated record these keep the keys that  *)
(* no random draw decides.                                                 *)

SeedRecord(competitor_name, brand_key, i, now) ==
    [id |-> SampleId(Slug(competitor_name), i, now),
     page_name |-> competitor_name, _brand_key |-> brand_key]

\* The list generate_sample_ads(competitor_name, brand_key, count) returns
\* when its datetime.now() falls in the second `now`.
GeneratedAds(competitor_name, brand_key, count, now) ==
    [n \in 1..count |-> SeedRecord(competitor_name, brand_key, n - 1, now)]

\* count = random.randint(10, 20): its least and greatest outcome
SeedCounts == {10, 20}

\* A competitors_config: the registry cut to the first n competitors of
\* each brand.
Prefix(brands, n) ==
    [b \in DOMAIN brands |->
        [brands[b] EXCEPT !.competitors = SubSeq(brands[b].competitors, 1, n)]]

MaxSeedComps == 2
MaxClock == 1
MaxCalls == 2

\* seed_all_sample_data(competitors_config): all_ads = [] and the two
\* loops, brand by brand and competitor by competitor.
SeedAllSampleData ==
    /\ seed_pc = "idle"
    /\ \E n \in 1..MaxSeedComps :
         seed_rest' = get_all_competitors(Prefix(BRANDS, n))
    /\ all_ads' = <<>>
    /\ seed_pc' = "loop"
    /\ reg_call' = NoRegCall
    /\ generated' = <<>>
    /\ UNCHANGED <<BRANDS, clock>>
    /\ UNCHANGED othervars_reg

\* One turn of the inner loop: draw count, call generate_sample_ads, extend
\* all_ads.  The clock may have reached the next second.
SeedLoop ==
    /\ seed_pc = "loop"
    /\ seed_rest # <<>>
    /\ \E count \in SeedCounts, now \in {clock, clock + 1} :
         /\ now <= MaxClock
         /\ all_ads' = all_ads \o GeneratedAds(Head(seed_rest).name,
                                               Head(seed_rest).brand, count, now)
         /\ clock' = now
    /\ seed_rest' = Tail(seed_rest)
    /\ UNCHANGED <<BRANDS, reg_call, seed_pc, generated>>
    /\ UNCHANGED othervars_reg

SeedReturn ==
    /\ seed_pc = "loop"
    /\ seed_rest = <<>>
    /\ seed_pc' = "done"
    /\ UNCHANGED <<BRANDS, reg_call, seed_rest, all_ads, clock, generated>>
    /\ UNCHANGED othervars_reg

\* The caller takes the list.
SeedCallerContinues ==
    /\ seed_pc = "done"
    /\ seed_pc' = "idle"
    /\ all_ads' = <<>>
    /\ UNCHANGED <<BRANDS, reg_call, seed_rest, clock, generated>>
    /\ UNCHANGED othervars_reg

\* A caller's own generate_sample_ads(competitor_name, brand_key, count):
\* `generated` keeps the lists such calls returned.
GenerateCall ==
    /\ seed_pc = "idle"
    /\ Len(generated) < MaxCalls
    /\ \E competitor_name \in {"Pilgrim", "PILGRIM", "Beardo"}, count \in 1..2, now \in {clock, clock + 1} :
         /\ now <= MaxClock
         /\ generated' = Append(generated,
                                GeneratedAds(competitor_name, "bebodywise", count, now))
         /\ clock' = now
    /\ reg_call' = NoRegCall
    /\ UNCHANGED <<BRANDS, seed_pc, seed_rest, all_ads>>
    /\ UNCHANGED othervars_reg

InitSeed ==
    /\ BRANDS = Registry
    /\ reg_call = NoRegCall
    /\ seed_pc = "idle"
    /\ seed_rest = <<>>
    /\ all_ads = <<>>
    /\ clock = 0
    /\ generated = <<>>

NextSeed ==
    \/ GetAllCompetitors \/ GetCompetitorsForBrand
    \/ SeedAllSampleData \/ SeedLoop \/ SeedReturn \/ SeedCallerContinues
    \/ GenerateCall

-----------------------------------------------------------------------------
(* backend/database.py: upsert_ad.                                         *)

\* db.query(AdRecord).filter_by(id=...): the rows with that id.
RowsWithId(tbl, id) == {r \in tbl : r.id = id}

\* The value attribute k takes from ad_data: ad_data[k] when ad_data holds
\* the key and the record has the attribute, else the value `old`.
Over(ad_data, k, old) ==
    IF HasKey(ad_data, k) /\ HasAttr(k) THEN ad_data[k] ELSE old

\* A variant of UpdateRow that keeps a value the row already has: the first
\* write wins.
UpdateRow_KeepsOld(existing, ad_data) ==
    [id |-> existing["id"],
     competitor_name |->
         IF existing["competitor_name"] # NoneStr
         THEN existing["competitor_name"]
         ELSE Over(ad_data, "competitor_name", existing["competitor_name"]),
     ad_body |->
         IF existing["ad_body"] # NoneStr THEN existing["ad_body"]
         ELSE Over(ad_data, "ad_body", existing["ad_body"]),
     media_type |-> Over(ad_data, "media_type", existing["media_type"]),
     ad_delivery_start_time |->
         Over(ad_data, "ad_delivery_start_time",
              existing["ad_delivery_start_time"]),
     brand_key |-> Over(ad_data, "brand_key", existing["brand_key"]),
     theme |-> Over(ad_data, "theme", existing["theme"]),
     is_active |-> Over(ad_data, "is_active", existing["is_active"]),
     is_top_performer |->
         Over(ad_data, "is_top_performer", existing["is_top_performer"])]

\* A variant of UpdateRow that builds the row anew from ad_data: an
\* attribute that ad_data does not name falls back to its default.
UpdateRow_Rebuilds(existing, ad_data) ==
    [id |-> existing["id"],
     competitor_name |->
         Over(ad_data, "competitor_name", ColumnDefault("competitor_name")),
     ad_body |-> Over(ad_data, "ad_body", ColumnDefault("ad_body")),
     media_type |-> Over(ad_data, "media_type", ColumnDefault("media_type")),
     ad_delivery_start_time |->
         Over(ad_data, "ad_delivery_start_time",
              ColumnDefault("ad_delivery_start_time")),
     brand_key |-> Over(ad_data, "brand_key", ColumnDefault("brand_key")),
     theme |-> Over(ad_data, "theme", ColumnDefault("theme")),
     is_active |-> Over(ad_data, "is_active", ColumnDefault("is_active")),
     is_top_performer |->
         Over(ad_data, "is_top_performer", ColumnDefault("is_top_performer"))]

\* for k, v in ad_data.items(): if hasattr(existing, k): setattr(existing, k, v)
UpdateRow(existing, ad_data) ==
    [id |-> Over(ad_data, "id", existing["id"]),
     competitor_name |->
         Over(ad_data, "competitor_name", existing["competitor_name"]),
     ad_body |-> Over(ad_data, "ad_body", existing["ad_body"]),
     media_type |-> Over(ad_data, "media_type", existing["media_type"]),
     ad_delivery_start_time |->
         Over(ad_data, "ad_delivery_start_time",
              existing["ad_delivery_start_time"]),
     brand_key |-> Over(ad_data, "brand_key", existing["brand_key"]),
     theme |-> Over(ad_data, "theme", existing["theme"]),
     is_active |-> Over(ad_data, "is_active", existing["is_active"]),
     is_top_performer |->
         Over(ad_data, "is_top_performer", existing["is_top_performer"])]

\* AdRecord(**{k: v for k, v in ad_data.items() if hasattr(AdRecord, k)})
NewRow(ad_data) ==
    [id |-> ad_data["id"],
     competitor_name |->
         Over(ad_data, "competitor_name", ColumnDefault("competitor_name")),
     ad_body |-> Over(ad_data, "ad_body", ColumnDefault("ad_body")),
     media_type |-> Over(ad_data, "media_type", ColumnDefault("media_type")),
     ad_delivery_start_time |->
         Over(ad_data, "ad_delivery_start_time",
              ColumnDefault("ad_delivery_start_time")),
     brand_key |-> Over(ad_data, "brand_key", ColumnDefault("brand_key")),
     theme |-> Over(ad_data, "theme", ColumnDefault("theme")),
     is_active |-> Over(ad_data, "is_active", ColumnDefault("is_active")),
     is_top_performer |->
         Over(ad_data, "is_top_performer", ColumnDefault("is_top_performer"))]

\* db.commit() binds the row's values to the columns' types: a DateTime
\* column takes a datetime object or None, and the flush raises on a string.
Bindable(row) ==
    \A k \in TimeFields : row[k].kind \in {"datetime", "none"}

\* A variant of upsert_ad whose insert path leaves the new row alone in
\* the table.
upsert_ad_InsertReplaces(tbl, ad_data) ==
    LET found == RowsWithId(tbl, ad_data["id"]) IN
    IF found # {}
    THEN { [table |-> IF Bindable(UpdateRow(existing, ad_data))
                      THEN (tbl \ {existing}) \cup {UpdateRow(existing, ad_data)}
                      ELSE tbl,
            path |-> "update",
            raised |-> ~Bindable(UpdateRow(existing, ad_data)),
            overwrote |-> /\ HasKey(ad_data, "ad_body")
                          /\ existing["ad_body"] # NoneStr
                          /\ existing["ad_body"] # ad_data["ad_body"]]
           : existing \in found }
    ELSE { [table |-> IF Bindable(NewRow(ad_data))
                      THEN {NewRow(ad_data)}
                      ELSE tbl,
            path |-> "insert",
            raised |-> ~Bindable(NewRow(ad_data)),
            overwrote |-> FALSE] }

\* The outcomes of upsert_ad(db, ad_data) on the table tbl: the table after
\* the call, the path taken, and whether the call raised (then nothing is
\* committed).
upsert_ad(tbl, ad_data) ==
    LET found == RowsWithId(tbl, ad_data["id"]) IN
    IF found # {}
    THEN { [table |-> IF Bindable(UpdateRow(existing, ad_data))
                      THEN (tbl \ {existing}) \cup {UpdateRow(existing, ad_data)}
                      ELSE tbl,
            path |-> "update",
            raised |-> ~Bindable(UpdateRow(existing, ad_data)),
            overwrote |-> /\ HasKey(ad_data, "ad_body")
                          /\ existing["ad_body"] # NoneStr
                          /\ existing["ad_body"] # ad_data["ad_body"]]
           : existing \in found }
    ELSE { [table |-> IF Bindable(NewRow(ad_data))
                      THEN tbl \cup {NewRow(ad_data)}
                      ELSE tbl,
            path |-> "insert",
            raised |-> ~Bindable(NewRow(ad_data)),
            overwrote |-> FALSE] }

\* History: what the calls that returned have supplied.
Given(ad_data, k, before) == IF HasKey(ad_data, k) THEN ad_data[k] ELSE before

NeverSupplied ==
    [competitor_name |-> Absent, ad_body |-> Absent, media_type |-> Absent,
     ad_delivery_start_time |-> AbsentTime]

Supply(sup, ad_data) ==
    LET before == sup[ad_data["id"]] IN
    [sup EXCEPT ![ad_data["id"]] =
        [competitor_name |->
             Given(ad_data, "competitor_name", before["competitor_name"]),
         ad_body |-> Given(ad_data, "ad_body", before["ad_body"]),
         media_type |-> Given(ad_data, "media_type", before["media_type"]),
         ad_delivery_start_time |->
             Given(ad_data, "ad_delivery_start_time",
                   before["ad_delivery_start_time"])]]

\* days_back: Optional[int] = None
NoneDays == -1

\* The last call: for upsert_ad the keys ad_data held, for get_ads its
\* arguments and the time of the query.
NoCall ==
    [op |-> "none", id |-> MetaId(0), path |-> "none", raised |-> FALSE,
     overwrote |-> FALSE, competitor_name |-> NoneStr, media_type |-> NoneStr,
     rows |-> <<>>, keys |-> {}, days_back |-> NoneDays, limit |-> 0,
     now |-> 0, brand_key |-> NoneStr,
     stats |-> [total_ads |-> 0, active_ads |-> 0, top_performers |-> 0,
                media_breakdown |-> {}, theme_breakdown |-> {},
                competitor_breakdown |-> {}],
     brief |-> [id |-> 0, brand_key |-> NoneStr]]

\* The ad_data dicts a caller passes: any subset of the keys, "id" always.
AdDatas ==
    [id : MetaIds,
     competitor_name : {"Pilgrim", Absent},
     ad_body : AdBodies \cup {Absent},
     media_type : {"IMAGE", Absent},
     ad_delivery_start_time : {DateTime(t) : t \in StartDays} \cup {AbsentTime},
     brand_key : {Absent}, theme : {Absent}, is_active : {Absent},
     is_top_performer : {Absent},
     _competitor : {"Pilgrim", Absent}]

SampleAds ==
    { GenerateSampleAd(c, i, now, m, d) :
        c \in CompetitorNames, i \in SampleIndexes, now \in SampleStamps,
        m \in MediaTypes, d \in {1, 2} }

AllIds == MetaIds \cup {r["id"] : r \in SampleAds}

DoUpsert(ad_data, op, competitor_name, media_type) ==
    \E out \in upsert_ad(table, ad_data) :
        /\ table' = out.table
        /\ supplied' = IF out.raised THEN supplied ELSE Supply(supplied, ad_data)
        /\ upserted' = IF out.raised THEN upserted ELSE upserted \cup {ad_data["id"]}
        /\ db_call' = [NoCall EXCEPT !.op = op, !.id = ad_data["id"],
                          !.path = out.path, !.raised = out.raised,
                          !.overwrote = out.overwrote,
                          !.keys = {k \in AdDataKeys : HasKey(ad_data, k)},
                          !.competitor_name = competitor_name,
                          !.media_type = media_type]

\* upsert_ad(db, ad_data) by a caller of the persistence layer.
UpsertAd ==
    /\ db_call = NoCall
    /\ \E ad_data \in AdDatas : DoUpsert(ad_data, "upsert_ad", NoneStr, NoneStr)
    /\ UNCHANGED <<briefs, runs>>
    /\ UNCHANGED othervars_db

\* upsert_ad(db, r) for a record r of
\* generate_sample_ads(competitor_name, brand_key); db_call keeps the
\* competitor_name the record was generated for and the record's media_type.
UpsertSampleAd ==
    /\ db_call = NoCall
    /\ \E r \in SampleAds :
           DoUpsert(r, "upsert_sample", r["_competitor"], r["media_type"])
    /\ UNCHANGED <<briefs, runs>>
    /\ UNCHANGED othervars_db

-----------------------------------------------------------------------------
(* backend/database.py: get_ads.                                           *)

\* `if competitor_name:` - None and "" apply no filter.
Truthy(s) == s # NoneStr /\ s # ""

\* ORDER BY ad_delivery_start_time DESC: SQLite sorts NULL below every value.
TimeKey(v) == IF v.kind = "datetime" THEN v.t ELSE -1

\* The orders in which the rows S can come back, latest start first; rows
\* with equal start times come in any order.
RECURSIVE OrderedDesc(_)
OrderedDesc(S) ==
    IF S = {} THEN {<<>>}
    ELSE UNION { { <<r>> \o rest : rest \in OrderedDesc(S \ {r}) } :
                 r \in { x \in S : \A y \in S :
                           TimeKey(y["ad_delivery_start_time"])
                             <= TimeKey(x["ad_delivery_start_time"]) } }

\* .limit(limit)
Limit(rows, limit) ==
    IF Len(rows) <= limit THEN rows ELSE SubSeq(rows, 1, limit)

\* The rows the filters of get_ads keep.  `if days_back:` applies no filter
\* for None and for 0; a NULL start time fails the comparison.
Matching(tbl, competitor_name, media_type, days_back, now) ==
    { r \in tbl :
        /\ Truthy(competitor_name) => r["competitor_name"] = competitor_name
        /\ Truthy(media_type) => r["media_type"] = media_type
        /\ days_back \notin {NoneDays, 0} =>
              /\ r["ad_delivery_start_time"].kind = "datetime"
              /\ r["ad_delivery_start_time"].t >= now - days_back }

\* The lists get_ads(db, competitor_name=, media_type=, days_back=, limit=)
\* can return at time `now`.
get_ads(tbl, competitor_name, media_type, days_back, limit, now) ==
    { Limit(rows, limit) :
        rows \in OrderedDesc(Matching(tbl, competitor_name, media_type,
                                      days_back, now)) }

DefaultLimit == 200

GetAds ==
    /\ db_call = NoCall
    /\ \E competitor_name \in {"Pilgrim", NoneStr},
          media_type \in {NoneStr, "IMAGE"},
          days_back \in {NoneDays, 0, 1},
          limit \in {1, DefaultLimit},
          now \in {3} :
         \E rows \in get_ads(table, competitor_name, media_type, days_back,
                             limit, now) :
            db_call' = [NoCall EXCEPT !.op = "get_ads", !.rows = rows,
                           !.competitor_name = competitor_name,
                           !.media_type = media_type,
                           !.days_back = days_back, !.limit = limit,
                           !.now = now]
    /\ UNCHANGED <<table, supplied, upserted, briefs, runs>>
    /\ UNCHANGED othervars_db

\* The caller takes what the call returned (or the exception it raised) and
\* goes on to its next call.
DbCallerContinues ==
    /\ db_call # NoCall
    /\ db_call' = NoCall
    /\ UNCHANGED <<table, supplied, upserted, briefs, runs>>
    /\ UNCHANGED othervars_db

-----------------------------------------------------------------------------
(* backend/database.py: get_stats, init_db, save_weekly_brief,             *)
(* get_latest_brief, save_run, for a store of enriched ads.                *)

RECURSIVE SumCounts(_)
SumCounts(S) ==
    IF S = {} THEN 0
    ELSE LET e == CHOOSE x \in S : TRUE IN e.count + SumCounts(S \ {e})

\* query.group_by(column): the values of the column with their row counts
Grouped(rows, column) ==
    { [key |-> v, count |-> Cardinality({r \in rows : r[column] = v})] :
        v \in {r[column] : r \in rows} }

\* A variant of get_stats whose theme and competitor queries leave the
\* brand filter out.
get_stats_BreakdownsOfAll(tbl, brand_key) ==
    LET q == {r \in tbl : Truthy(brand_key) => r["brand_key"] = brand_key} IN
    [total_ads |-> Cardinality(q),
     active_ads |-> Cardinality({r \in q : r["is_active"] = "True"}),
     top_performers |->
         Cardinality({r \in q : r["is_top_performer"] = "True"}),
     media_breakdown |->
         { [key |-> mt,
            count |-> Cardinality({r \in q : r["media_type"] = mt})] :
             mt \in {"IMAGE", "VIDEO", "CAROUSEL"} },
     theme_breakdown |->
         {g \in Grouped(tbl, "theme") : Truthy(g.key)},
     competitor_breakdown |->
         {g \in Grouped(tbl, "competitor_name") : Truthy(g.key)}]

\* get_stats(db, brand_key): a breakdown is the set of its keys with their
\* counts.
get_stats(tbl, brand_key) ==
    LET q == {r \in tbl : Truthy(brand_key) => r["brand_key"] = brand_key} IN
    [total_ads |-> Cardinality(q),
     active_ads |-> Cardinality({r \in q : r["is_active"] = "True"}),
     top_performers |->
         Cardinality({r \in q : r["is_top_performer"] = "True"}),
     media_breakdown |->
         { [key |-> mt,
            count |-> Cardinality({r \in q : r["media_type"] = mt})] :
             mt \in {"IMAGE", "VIDEO", "CAROUSEL"} },
     theme_breakdown |->
         {g \in Grouped(q, "theme") : Truthy(g.key)},        \* if row[0]
     competitor_breakdown |->
         {g \in Grouped(q, "competitor_name") : Truthy(g.key)}]

BrandKeys == {"manmatters", "bebodywise"}

\* The enriched ad dicts the pipeline stores.
EnrichedAd(id, brand_key, competitor_name, media_type, theme, is_active, is_top_performer, start) ==
    [id |-> id, competitor_name |-> competitor_name, ad_body |-> Absent,
     media_type |-> media_type, ad_delivery_start_time |-> start,
     brand_key |-> brand_key, theme |-> theme, is_active |-> is_active,
     is_top_performer |-> is_top_performer, _competitor |-> Absent]

EnrichedAdDatas ==
    UNION { { EnrichedAd(id, "manmatters", "Beardo", "IMAGE", "offer_promo",
                         "False", "True", DateTime(1)),
              EnrichedAd(id, "manmatters", "Beardo", "VIDEO", Absent, Absent,
                         Absent, AbsentTime),
              EnrichedAd(id, "bebodywise", "Pilgrim", "CAROUSEL",
                         "ugc_testimonial", "True", "False", DateTime(2)),
              EnrichedAd(id, Absent, Absent, Absent, Absent, Absent, Absent,
                         AbsentTime),
              EnrichedAd(id, "bebodywise", Absent, "TEXT", "", "False",
                         Absent, AbsentTime) } : id \in MetaIds }

UpsertEnrichedAd ==
    /\ db_call = NoCall
    /\ \E ad_data \in EnrichedAdDatas :
           DoUpsert(ad_data, "upsert_ad", NoneStr, NoneStr)
    /\ UNCHANGED <<briefs, runs>>
    /\ UNCHANGED othervars_db

\* init_db(): create_all creates the tables that are missing and leaves
\* the rows of the others alone.
InitDbCall ==
    /\ db_call = NoCall
    /\ db_call' = [NoCall EXCEPT !.op = "init_db"]
    /\ UNCHANGED <<table, supplied, upserted, briefs, runs>>
    /\ UNCHANGED othervars_db

GetStats ==
    /\ db_call = NoCall
    /\ \E brand_key \in BrandKeys \cup {NoneStr} :
         db_call' = [NoCall EXCEPT !.op = "get_stats",
                        !.brand_key = brand_key,
                        !.stats = get_stats(table, brand_key)]
    /\ UNCHANGED <<table, supplied, upserted, briefs, runs>>
    /\ UNCHANGED othervars_db

MaxBriefs == 1
MaxRuns == 1

\* save_weekly_brief(db, brief_data): one more row, with the next id.
SaveWeeklyBrief ==
    /\ db_call = NoCall
    /\ Len(briefs) < MaxBriefs
    /\ \E brand_key \in BrandKeys :
         /\ briefs' = Append(briefs, [id |-> Len(briefs) + 1,
                                      brand_key |-> brand_key])
         /\ db_call' = [NoCall EXCEPT !.op = "save_weekly_brief",
                           !.brand_key = brand_key]
    /\ UNCHANGED <<table, supplied, upserted, runs>>
    /\ UNCHANGED othervars_db

\* get_latest_brief(db, brand_key): the brand's brief generated last, or
\* None.
get_latest_brief(brfs, brand_key) ==
    LET mine == {i \in DOMAIN brfs : brfs[i].brand_key = brand_key} IN
    IF mine = {} THEN [id |-> 0, brand_key |-> NoneStr]
    ELSE brfs[CHOOSE i \in mine : \A j \in mine : j <= i]

GetLatestBrief ==
    /\ db_call = NoCall
    /\ \E brand_key \in BrandKeys :
         db_call' = [NoCall EXCEPT !.op = "get_latest_brief",
                        !.brand_key = brand_key,
                        !.brief = get_latest_brief(briefs, brand_key)]
    /\ UNCHANGED <<table, supplied, upserted, briefs, runs>>
    /\ UNCHANGED othervars_db

\* save_run(db, run_data): one more row.
SaveRun ==
    /\ db_call = NoCall
    /\ runs < MaxRuns
    /\ runs' = runs + 1
    /\ db_call' = [NoCall EXCEPT !.op = "save_run"]
    /\ UNCHANGED <<table, supplied, upserted, briefs>>
    /\ UNCHANGED othervars_db

NextStore ==
    \/ UpsertEnrichedAd \/ GetAds \/ GetStats \/ InitDbCall
    \/ SaveWeeklyBrief \/ GetLatestBrief \/ SaveRun \/ DbCallerContinues

-----------------------------------------------------------------------------
(* backend/database.py: upsert_ad run by several callers at once, each     *)
(* with the session that get_db gave it.  The engine is SQLite: a commit   *)
(* is atomic, and a session's SELECT holds no lock once it has returned,   *)
(* so the steps of two calls interleave between lookup and commit.         *)

Callers == {"a", "b"}

\* The ad dicts the callers bring, all for one id.
ConcurrentAdDatas ==
    [id : {MetaId(1)},
     competitor_name : {Absent},
     ad_body : AdBodies \cup {Absent},
     media_type : {"IMAGE", "VIDEO", Absent},
     ad_delivery_start_time : {AbsentTime},
     brand_key : {Absent}, theme : {Absent}, is_active : {Absent},
     is_top_performer : {Absent},
     _competitor : {Absent}]

BlankAdData ==
    [id |-> AbsentId, competitor_name |-> Absent, ad_body |-> Absent,
     media_type |-> Absent, ad_delivery_start_time |-> AbsentTime,
     brand_key |-> Absent, theme |-> Absent, is_active |-> Absent,
     is_top_performer |-> Absent, _competitor |-> Absent]

\* Stands for "no row" in a caller's record.
BlankRow == NewRow(BlankAdData)

NoSession ==
    [pc |-> "idle", ad_data |-> BlankAdData, found |-> FALSE,
     existing |-> BlankRow, reflected |-> FALSE, after |-> BlankRow]

\* The value the flush of a loaded row leaves in column k: the session's
\* UPDATE sets the columns whose value setattr changed from the loaded one
\* and no others.
Flushed(current, loaded, ad_data, k) ==
    IF HasKey(ad_data, k) /\ HasAttr(k) /\ ad_data[k] # loaded[k]
    THEN ad_data[k] ELSE current[k]

\* The row after the commit of the update path: `current` is the row in the
\* store, `loaded` the row as the lookup read it.
flush_update(current, loaded, ad_data) ==
    [id |-> current["id"],
     competitor_name |-> Flushed(current, loaded, ad_data, "competitor_name"),
     ad_body |-> Flushed(current, loaded, ad_data, "ad_body"),
     media_type |-> Flushed(current, loaded, ad_data, "media_type"),
     ad_delivery_start_time |->
         Flushed(current, loaded, ad_data, "ad_delivery_start_time"),
     brand_key |-> Flushed(current, loaded, ad_data, "brand_key"),
     theme |-> Flushed(current, loaded, ad_data, "theme"),
     is_active |-> Flushed(current, loaded, ad_data, "is_active"),
     is_top_performer |->
         Flushed(current, loaded, ad_data, "is_top_performer")]

\* A variant of flush_insert for a table without the primary key on id.
flush_insert_NoPrimaryKey(tbl, row) ==
    [table |-> tbl \cup {row}, raised |-> FALSE]

\* The commit of the insert path: id is the primary key (line 28), so the
\* INSERT raises IntegrityError when the store holds a row with that id.
flush_insert(tbl, row) ==
    IF RowsWithId(tbl, row["id"]) # {}
    THEN [table |-> tbl, raised |-> TRUE]
    ELSE [table |-> tbl \cup {row}, raised |-> FALSE]

\* The row r holds every value that ad_data gives for a column.
Reflects(r, ad_data) ==
    \A k \in DataFields : HasKey(ad_data, k) => r[k] = ad_data[k]

\* History: the callers other than c that are between lookup and commit
\* have the row r committed during their call.
Seen(c, r) ==
    [d \in Callers |->
        IF d # c /\ callers[d].pc = "looked"
        THEN [callers[d] EXCEPT
                 !.reflected = @ \/ Reflects(r, callers[d].ad_data)]
        ELSE callers[d]]

\* existing = db.query(AdRecord).filter_by(id=ad_data["id"]).first()
ConcurrentLookup(c) ==
    /\ callers[c].pc = "idle"
    /\ \E ad_data \in ConcurrentAdDatas :
         LET rows == RowsWithId(table, ad_data["id"]) IN
         callers' = [callers EXCEPT ![c] =
             [pc |-> "looked", ad_data |-> ad_data, found |-> rows # {},
              existing |-> IF rows # {} THEN CHOOSE r \in rows : TRUE
                           ELSE BlankRow,
              reflected |-> \E r \in rows : Reflects(r, ad_data),
              after |-> BlankRow]]
    /\ UNCHANGED table
    /\ UNCHANGED othervars_cc

\* if existing: the setattr loop, db.commit(), return existing
ConcurrentUpdate(c) ==
    /\ callers[c].pc = "looked"
    /\ callers[c].found
    /\ \E current \in RowsWithId(table, callers[c].ad_data["id"]) :
         LET row == flush_update(current, callers[c].existing, callers[c].ad_data) IN
         /\ table' = (table \ {current}) \cup {row}
         /\ callers' = [Seen(c, row) EXCEPT ![c] =
                [callers[c] EXCEPT !.pc = "returned", !.after = row,
                     !.reflected = @ \/ Reflects(row, callers[c].ad_data)]]
    /\ UNCHANGED othervars_cc

\* record = AdRecord(...), db.add(record), db.commit(), return record
ConcurrentInsert(c) ==
    /\ callers[c].pc = "looked"
    /\ ~callers[c].found
    /\ LET row == NewRow(callers[c].ad_data)
           out == flush_insert(table, row)
       IN /\ table' = out.table
          /\ callers' =
               IF out.raised
               THEN [callers EXCEPT ![c].pc = "raised"]
               ELSE [Seen(c, row) EXCEPT ![c] =
                       [callers[c] EXCEPT !.pc = "returned", !.after = row,
                            !.reflected = Reflects(row, callers[c].ad_data)]]
    /\ UNCHANGED othervars_cc

\* The caller goes on, and may call again.
ConcurrentCallerContinues(c) ==
    /\ callers[c].pc \in {"returned", "raised"}
    /\ callers' = [callers EXCEPT ![c] = NoSession]
    /\ UNCHANGED table
    /\ UNCHANGED othervars_cc

InitConcurrent == callers = [c \in Callers |-> NoSession]

NextConcurrent ==
    \E c \in Callers :
        \/ ConcurrentLookup(c) \/ ConcurrentUpdate(c) \/ ConcurrentInsert(c)
        \/ ConcurrentCallerContinues(c)

-----------------------------------------------------------------------------
(* backend/meta_api.py: MetaAdLibraryClient.                               *)

\* self.rate_limit_sleep = 1.0, in milliseconds
RateLimitSleepMs == 1000

Sleep(ms) == [ev |-> "sleep", endpoint |-> "", after |-> NoneStr, ms |-> ms]
\* session.get(GRAPH_API_BASE + endpoint, params=...); `after` is the value
\* of params["after"], NoneStr when params has no such key.
Request(endpoint, after) ==
    [ev |-> "get", endpoint |-> endpoint, after |-> after, ms |-> 0]

\* What the server (or the transport) answers to one request.
\*   ok:            status 200, a JSON object with no "error" key
\*   error_payload: status 200, a JSON object with an "error" key
\*   json_null:     status 200, the JSON value null: no object at all
\*   connection_error, timeout: session.get raises
\*   http_error:    a 4xx/5xx status, resp.raise_for_status() raises
\* data is the object's "data" list, after its paging.cursors.after (NoneStr:
\* missing), next whether it has a paging.next.
TransportFailures == {"connection_error", "timeout", "http_error"}
Cursors == {"c1", "c2"}
DataLists == {<<>>, <<"ad_a">>, <<"ad_b">>}
Responses ==
    [kind : {"ok", "error_payload"}, data : DataLists,
     after : Cursors \cup {NoneStr}, next : BOOLEAN]
    \cup [kind : TransportFailures \cup {"json_null"}, data : {<<>>},
          after : {NoneStr}, next : {FALSE}]

\* {"data": [], "paging": {}, "error": ...}
ErrorResult ==
    [data |-> <<>>, after |-> NoneStr, next |-> FALSE, error |-> TRUE,
     raised |-> FALSE]

\* No dict comes back: an exception that is no RequestException leaves
\* search_ads (the TypeError of `"error" in result` when result is None).
RaisedResult == [ErrorResult EXCEPT !.raised = TRUE, !.error = FALSE]

\* A variant of search_ads that never sends the cursor.
search_ads_NoCursor(after_cursor, resp) ==
    [events |-> <<Sleep(RateLimitSleepMs), Request("/ads_archive", NoneStr)>>,
     result |->
        IF resp.kind \in TransportFailures \/ resp.kind = "error_payload"
        THEN ErrorResult
        ELSE IF resp.kind = "json_null"
        THEN RaisedResult
        ELSE [data |-> resp.data, after |-> resp.after, next |-> resp.next,
              error |-> FALSE, raised |-> FALSE]]

\* A variant of search_ads that catches only connection errors and timeouts:
\* the HTTPError of raise_for_status() reaches the caller.
search_ads_HttpErrorEscapes(after_cursor, resp) ==
    [events |->
        <<Sleep(RateLimitSleepMs),
          Request("/ads_archive",
                  IF Truthy(after_cursor) THEN after_cursor ELSE NoneStr)>>,
     result |->
        IF resp.kind \in {"http_error", "json_null"}
        THEN RaisedResult
        ELSE IF resp.kind \in TransportFailures \/ resp.kind = "error_payload"
        THEN ErrorResult
        ELSE [data |-> resp.data, after |-> resp.after, next |-> resp.next,
              error |-> FALSE, raised |-> FALSE]]

\* search_ads(..., after_cursor=after_cursor) when the server answers resp:
\* the events of the call and the dict it returns (raised: the call raised
\* instead of returning).
search_ads(after_cursor, resp) ==
    [events |->
        <<Sleep(RateLimitSleepMs),
          Request("/ads_archive",
                  IF Truthy(after_cursor) THEN after_cursor ELSE NoneStr)>>,
     result |->
        IF resp.kind \in TransportFailures
        THEN ErrorResult                      \* except RequestException
        ELSE IF resp.kind = "json_null"
        THEN RaisedResult                     \* "error" in None: TypeError
        ELSE IF resp.kind = "error_payload"
        THEN ErrorResult                      \* if "error" in result
        ELSE [data |-> resp.data, after |-> resp.after, next |-> resp.next,
              error |-> FALSE, raised |-> FALSE]]

NoResult ==
    [data |-> <<>>, after |-> NoneStr, next |-> FALSE, error |-> FALSE,
     raised |-> FALSE]
NoRet == [op |-> "none", raised |-> FALSE, page_id |-> NoneStr, valid |-> FALSE]

MaxPagesArg == 3

\* fetch_all_ads_for_competitor, lines 144-155: the first search_ads call.
FetchStart ==
    /\ f_pc = "idle"
    /\ \E mp \in 0..MaxPagesArg, resp \in Responses :
         LET call == search_ads(NoneStr, resp) IN
         /\ max_pages' = mp
         /\ trace' = call.events
         /\ pages' = <<[kind |-> resp.kind, result |-> call.result]>>
         /\ result' = call.result
         /\ ads' = IF call.result.raised THEN <<>> ELSE call.result.data
         /\ page_count' = 1
         /\ f_pc' = IF call.result.raised THEN "done" ELSE "loop"
         /\ client_ret' = [NoRet EXCEPT !.op = "fetch_all_ads_for_competitor",
                              !.raised = call.result.raised]
    /\ UNCHANGED othervars_fetch

\* `while page_count < max_pages` and `if not after or not paging.get("next")`
MorePages ==
    /\ page_count < max_pages
    /\ Truthy(result.after)
    /\ result.next

\* One turn of the loop, lines 157-171: the next page.
FetchNextPage ==
    /\ f_pc = "loop"
    /\ MorePages
    /\ \E resp \in Responses :
         LET call == search_ads(result.after, resp) IN
         /\ trace' = trace \o call.events
         /\ pages' = Append(pages, [kind |-> resp.kind, result |-> call.result])
         /\ result' = call.result
         /\ ads' = IF call.result.raised THEN ads ELSE ads \o call.result.data
         /\ page_count' = IF call.result.raised THEN page_count ELSE page_count + 1
         /\ f_pc' = IF call.result.raised THEN "done" ELSE "loop"
         /\ client_ret' = [client_ret EXCEPT !.raised = call.result.raised]
    /\ UNCHANGED max_pages
    /\ UNCHANGED othervars_fetch

\* The loop ends (its condition fails, or the break) and ads is returned.
FetchReturn ==
    /\ f_pc = "loop"
    /\ ~MorePages
    /\ f_pc' = "done"
    /\ UNCHANGED <<max_pages, page_count, result, ads, trace, pages, client_ret>>
    /\ UNCHANGED othervars_fetch

\* get_page_id(page_name): the sleep, the request, and the first page's id
\* or None; `except Exception` absorbs every failure.
PageSearchOutcomes ==
    {"found", "no_match", "connection_error", "timeout", "http_error"}
get_page_id(outcome) ==
    [events |-> <<Sleep(RateLimitSleepMs), Request("/pages/search", NoneStr)>>,
     page_id |-> IF outcome = "found" THEN "page-1" ELSE NoneStr,
     raised |-> FALSE]

GetPageId ==
    /\ f_pc = "idle"
    /\ \E outcome \in PageSearchOutcomes :
         LET call == get_page_id(outcome) IN
         /\ trace' = call.events
         /\ client_ret' = [NoRet EXCEPT !.op = "get_page_id",
                              !.page_id = call.page_id, !.raised = call.raised]
    /\ f_pc' = "done"
    /\ UNCHANGED <<max_pages, page_count, result, ads, pages>>
    /\ UNCHANGED othervars_fetch

\* validate_token(): one request to /me, true when the answer has an "id".
TokenOutcomes == {"has_id", "no_id", "connection_error", "timeout"}
validate_token(outcome) ==
    [events |-> <<Request("/me", NoneStr)>>,
     valid |-> outcome = "has_id",
     raised |-> FALSE]

ValidateToken ==
    /\ f_pc = "idle"
    /\ \E outcome \in TokenOutcomes :
         LET call == validate_token(outcome) IN
         /\ trace' = call.events
         /\ client_ret' = [NoRet EXCEPT !.op = "validate_token",
                              !.valid = call.valid, !.raised = call.raised]
    /\ f_pc' = "done"
    /\ UNCHANGED <<max_pages, page_count, result, ads, pages>>
    /\ UNCHANGED othervars_fetch

\* The caller takes what the operation returned; the client is ready for
\* the next operation.
ClientCallerContinues ==
    /\ f_pc = "done"
    /\ f_pc' = "idle"
    /\ max_pages' = 0
    /\ page_count' = 0
    /\ result' = NoResult
    /\ ads' = <<>>
    /\ trace' = <<>>
    /\ pages' = <<>>
    /\ client_ret' = NoRet
    /\ UNCHANGED othervars_fetch

InitFetch ==
    /\ f_pc = "idle"
    /\ max_pages = 0
    /\ page_count = 0
    /\ result = NoResult
    /\ ads = <<>>
    /\ trace = <<>>
    /\ pages = <<>>
    /\ client_ret = NoRet

NextFetch ==
    \/ FetchStart \/ FetchNextPage \/ FetchReturn
    \/ GetPageId \/ ValidateToken \/ ClientCallerContinues

-----------------------------------------------------------------------------
(* backend/ai_analyzer.py: the text of the model and its parsing.          *)

\* A model output is a sequence of pieces:
\*   "fence_json"      the characters ```json, and
\*   "fence"           the characters ```: the markdown fence (each of their
\*                     characters is in the set that strip("```json") removes)
\*   "ws"              whitespace
\*   "value"           the text of one JSON value that starts with { [ or a
\*                     digit (strip removes none of its characters)
\*   "prose"           other text;  "error": other text holding "error"
TextTokens == {"fence_json", "fence", "ws", "value", "prose", "error"}
MaxTextLen == 3

RECURSIVE SeqsUpTo(_, _)
SeqsUpTo(S, n) ==
    IF n = 0 THEN {<<>>}
    ELSE LET shorter == SeqsUpTo(S, n - 1) IN
         shorter \cup { Append(q, x) : q \in { t \in shorter : Len(t) = n - 1 },
                                        x \in S }

Texts == SeqsUpTo(TextTokens, MaxTextLen)

\* str.strip(chars) on pieces: drop the leading and the trailing pieces that
\* consist of characters of chars.
RECURSIVE LStrip(_, _)
LStrip(text, pieces) ==
    IF text # <<>> /\ Head(text) \in pieces
    THEN LStrip(Tail(text), pieces) ELSE text
RECURSIVE RStrip(_, _)
RStrip(text, pieces) ==
    IF text # <<>> /\ text[Len(text)] \in pieces
    THEN RStrip(SubSeq(text, 1, Len(text) - 1), pieces) ELSE text
Strip(text, pieces) == RStrip(LStrip(text, pieces), pieces)

\* result.strip().strip("```json").strip("```").strip()
Cleaned(text) ==
    Strip(Strip(Strip(Strip(text, {"ws"}), {"fence_json", "fence"}),
                {"fence"}),
          {"ws"})

\* json.loads(cleaned) succeeds: cleaned is the text of one JSON value.
Parses(cleaned) == cleaned = <<"value">>

\* The JSON documents a "value" piece can be.
JsonValues ==
    {"object_full", "object_empty", "object_insight_without_title",
     "object_null_insights", "object_null_theme", "list", "number"}
NoJson == "no json"

\* What the external call can do: raise, or return response.text, where
\* None is the empty text; json names the document that the value piece of
\* the text holds (TextOutcomes: for a caller that does not parse the text).
HasValue(text) == \E i \in DOMAIN text : text[i] = "value"

TextOutcomes ==
    {[kind |-> "exception", text |-> <<>>, json |-> NoJson]}
    \cup { [kind |-> "text", text |-> t, json |-> NoJson] : t \in Texts }

AiOutcomes ==
    { o \in TextOutcomes : ~HasValue(o.text) }
    \cup { [kind |-> "text", text |-> t, json |-> j] :
             t \in { x \in Texts : HasValue(x) }, j \in JsonValues }

\* _call_ai(prompt, system, max_tokens): the text returned and the number of
\* calls made to the external model.
_call_ai(key, outcome) ==
    IF ~key THEN [text |-> <<>>, contacts |-> 0]
    ELSE IF outcome.kind = "exception" THEN [text |-> <<>>, contacts |-> 1]
    ELSE [text |-> outcome.text, contacts |-> 1]

-----------------------------------------------------------------------------
(* backend/ai_analyzer.py: the ad dicts and the analysis objects.          *)

\* An ad dict, in the persisted schema or in the schema of
\* generate_sample_ads (the "_" keys); a boolean is "True" or "False".
PersistedAd ==
    [competitor_name |-> "Pilgrim", theme |-> "offer_promo",
     media_type |-> "IMAGE", is_active |-> "True",
     is_top_performer |-> "False",
     _competitor |-> Absent, _theme |-> Absent, _is_active |-> Absent,
     _is_top_performer |-> Absent]
SampleAd ==
    [competitor_name |-> Absent, theme |-> Absent,
     media_type |-> "VIDEO", is_active |-> Absent,
     is_top_performer |-> Absent,
     _competitor |-> "Beardo", _theme |-> "ugc_testimonial",
     _is_active |-> "False", _is_top_performer |-> "True"]
AdDicts == {PersistedAd, SampleAd}
MaxAds == 2
AdLists == SeqsUpTo(AdDicts, MaxAds)

\* ad.get(key): None when the key is missing
Get(ad, key) == IF ad[key] = Absent THEN NoneStr ELSE ad[key]
\* ad.get(key, default)
GetOr(ad, key, default) == IF ad[key] = Absent THEN default ELSE ad[key]
\* the truth value of a string or boolean value
PyTrue(v) == v \notin {NoneStr, Absent, "", "False"}
\* ad.get(key) or ad.get(alt, default)
GetOrAlt(ad, key, alt, default) ==
    IF PyTrue(Get(ad, key)) THEN Get(ad, key) ELSE GetOr(ad, alt, default)

\* An analysis object as generate_weekly_brief reads it: the Python type of
\* the value, its "insights" (absent, null or a list of insights, each with
\* the keys it holds) and the summary fields (Absent: no such key, NoneStr:
\* null).
Insight(type, keys) == [type |-> type, keys |-> keys]
InsightKeys ==
    {"type", "title", "detail", "competitors_involved", "urgency",
     "recommended_action"}
AnalysisObject(py, insights_kind, insights, dominant_theme, rising_theme, underused_format, top_spending_competitor, summary) ==
    [py |-> py, insights_kind |-> insights_kind, insights |-> insights,
     dominant_theme |-> dominant_theme, rising_theme |-> rising_theme,
     underused_format |-> underused_format,
     top_spending_competitor |-> top_spending_competitor,
     summary |-> summary, pct_theme |-> -1, pct_media |-> -1, pct_top |-> -1]

NoAnalysis ==
    AnalysisObject("none", "absent", <<>>, Absent, Absent, Absent, Absent,
                   Absent)

\* {"insights": [], "summary": "No ads to analyze."}
EmptyBatchObject ==
    AnalysisObject("dict", "list", <<>>, Absent, Absent, Absent, Absent,
                   "No ads to analyze.")

\* json.loads of the document j.
JsonObject(j) ==
    CASE j = "object_full" ->
           AnalysisObject("dict", "list", <<Insight("shift", InsightKeys)>>,
                          "doctor_authority", "community_story", "VIDEO",
                          "Pilgrim", Absent)
      [] j = "object_empty" ->
           AnalysisObject("dict", "absent", <<>>, Absent, Absent, Absent,
                          Absent, Absent)
      [] j = "object_insight_without_title" ->
           AnalysisObject("dict", "list", <<Insight("trend", {"type", "detail"})>>,
                          "offer_promo", Absent, Absent, Absent, Absent)
      [] j = "object_null_insights" ->
           AnalysisObject("dict", "null", <<>>, "offer_promo", Absent, Absent,
                          Absent, Absent)
      [] j = "object_null_theme" ->
           AnalysisObject("dict", "list", <<>>, NoneStr, Absent, Absent,
                          Absent, Absent)
      [] j = "list" ->
           AnalysisObject("list", "absent", <<>>, Absent, Absent, Absent,
                          Absent, Absent)
      [] OTHER ->
           AnalysisObject("int", "absent", <<>>, Absent, Absent, Absent,
                          Absent, Absent)

-----------------------------------------------------------------------------
(* backend/ai_analyzer.py: _fallback_batch_analysis.                       *)

Count(values, v) == Cardinality({i \in DOMAIN values : values[i] = v})
FirstAt(values, v) == CHOOSE i \in DOMAIN values :
    values[i] = v /\ \A j \in DOMAIN values : values[j] = v => i <= j

\* A variant of MostCommon that picks the value counted least often.
MostCommon_Least(values) ==
    LET v == CHOOSE x \in {values[i] : i \in DOMAIN values} :
                 \A y \in {values[i] : i \in DOMAIN values} :
                     \/ Count(values, x) < Count(values, y)
                     \/ /\ Count(values, y) = Count(values, x)
                        /\ FirstAt(values, x) <= FirstAt(values, y)
    IN [value |-> v, count |-> Count(values, v)]

\* Counter.most_common(1)[0] of a non-empty list: the value counted most
\* often, the one seen first among equals, with its count.
MostCommon(values) ==
    LET v == CHOOSE x \in {values[i] : i \in DOMAIN values} :
                 \A y \in {values[i] : i \in DOMAIN values} :
                     \/ Count(values, y) < Count(values, x)
                     \/ /\ Count(values, y) = Count(values, x)
                        /\ FirstAt(values, x) <= FirstAt(values, y)
    IN [value |-> v, count |-> Count(values, v)]

\* A variant of RoundPct that cuts the fraction off.
RoundPct_Truncates(num, den) == (100 * num) \div den

\* round(num / den * 100) for den > 0: Python rounds a half to the even
\* integer (the float quotient is the exact one for every den up to 39).
RoundPct(num, den) ==
    LET q == (100 * num) \div den
        r == (100 * num) % den
    IN IF 2 * r < den THEN q
       ELSE IF 2 * r > den THEN q + 1
       ELSE IF q % 2 = 0 THEN q ELSE q + 1

\* A variant of AllFormats with a fourth format.
AllFormats_WithText == {"IMAGE", "VIDEO", "CAROUSEL", "TEXT"}

AllFormats == {"IMAGE", "VIDEO", "CAROUSEL"}

\* ad.get("theme") or ad.get("_theme", "unknown")
ThemeOf(ad) == GetOrAlt(ad, "theme", "_theme", "unknown")
\* ad.get("media_type", "IMAGE")
MediaTypeOf(ad) == GetOr(ad, "media_type", "IMAGE")
\* ad.get("competitor_name") or ad.get("_competitor", "unknown")
CompetitorOf(ad) == GetOrAlt(ad, "competitor_name", "_competitor", "unknown")

\* The results _fallback_batch_analysis(ads, brand_display) can return for a
\* non-empty ads: `list(all_formats - used_formats)[0]` is whichever member
\* the set's iteration yields first.
_fallback_batch_analysis(ad_list) ==
    LET n == Len(ad_list)
        themes == [i \in 1..n |-> ThemeOf(ad_list[i])]
        media_types == [i \in 1..n |-> MediaTypeOf(ad_list[i])]
        competitors == [i \in 1..n |-> CompetitorOf(ad_list[i])]
        top_performer_count == Cardinality({i \in 1..n :
            PyTrue(GetOrAlt(ad_list[i], "is_top_performer",
                            "_is_top_performer", "False"))})
        top_theme == MostCommon(themes)
        top_media == MostCommon(media_types)
        top_comp == MostCommon(competitors)
        underused == AllFormats \ {media_types[i] : i \in 1..n}
    IN { [AnalysisObject("dict", "list",
             <<Insight("trend", InsightKeys), Insight("trend", InsightKeys),
               Insight("opportunity", InsightKeys),
               Insight("top_performer", InsightKeys),
               Insight("warning", InsightKeys)>>,
             top_theme.value, "ugc_testimonial", underused_format,
             top_comp.value, Absent)
          EXCEPT !.pct_theme = RoundPct(top_theme.count, n),
                 !.pct_media = RoundPct(top_media.count, n),
                 !.pct_top = RoundPct(top_performer_count, n)]
         : underused_format \in
             IF underused # {} THEN underused ELSE {"CAROUSEL"} }

\* Batches for _fallback_batch_analysis on its own: up to MaxBatch ads, of
\* the two schemas above, with an ad of another media type or an ad without
\* any of the keys among the first MaxVaried.
CarouselAd ==
    [competitor_name |-> "Pilgrim", theme |-> Absent,
     media_type |-> "CAROUSEL", is_active |-> "True",
     is_top_performer |-> "True",
     _competitor |-> Absent, _theme |-> Absent, _is_active |-> Absent,
     _is_top_performer |-> Absent]
BareAd ==
    [competitor_name |-> Absent, theme |-> Absent, media_type |-> Absent,
     is_active |-> Absent, is_top_performer |-> Absent,
     _competitor |-> Absent, _theme |-> Absent, _is_active |-> Absent,
     _is_top_performer |-> Absent]
MaxBatch == 10
MaxVaried == 2

\* The caller adds an ad to the batch it will hand over.
FbAddAd ==
    /\ fb_pc = "idle"
    /\ Len(fb_ads) < MaxBatch
    /\ \E ad \in AdDicts \cup {CarouselAd, BareAd} :
         /\ ad \in AdDicts \/ Len(fb_ads) < MaxVaried
         /\ fb_ads' = Append(fb_ads, ad)
    /\ UNCHANGED <<fb_pc, fb_ret>>
    /\ UNCHANGED othervars_fb

\* _fallback_batch_analysis(ads, brand_display) on the batch; analyze_batch
\* calls it for a non-empty ads only.
FallbackBatchAnalysis ==
    /\ fb_pc = "idle"
    /\ fb_ads # <<>>
    /\ fb_ret' \in _fallback_batch_analysis(fb_ads)
    /\ fb_pc' = "done"
    /\ UNCHANGED fb_ads
    /\ UNCHANGED othervars_fb

\* The caller takes the analysis and goes on with its batch.
FbCallerContinues ==
    /\ fb_pc = "done"
    /\ fb_pc' = "idle"
    /\ fb_ret' = NoAnalysis
    /\ UNCHANGED fb_ads
    /\ UNCHANGED othervars_fb

InitFallback ==
    /\ fb_ads = <<>>
    /\ fb_pc = "idle"
    /\ fb_ret = NoAnalysis

NextFallback == FbAddAd \/ FallbackBatchAnalysis \/ FbCallerContinues

-----------------------------------------------------------------------------
(* backend/ai_analyzer.py: classify_ad and analyze_batch.                  *)

NoClassification ==
    [theme |-> NoneStr, sentiment |-> NoneStr, cta_type |-> NoneStr,
     creative_angle |-> NoneStr, has_price_mention |-> FALSE,
     has_social_proof |-> FALSE, has_expert_endorsement |-> FALSE]

\* The dict of classify_ad's except branch.
FallbackClassification ==
    [theme |-> "unknown", sentiment |-> "unknown", cta_type |-> "unknown",
     creative_angle |-> "Could not analyze", has_price_mention |-> FALSE,
     has_social_proof |-> FALSE, has_expert_endorsement |-> FALSE]

\* What an operation returned: whether it raised, where the value comes
\* from ("model": json.loads of the model's text, named by json), and the
\* value.
Ret(raised, source, json, classification, analysis, brief) ==
    [raised |-> raised, source |-> source, json |-> json,
     classification |-> classification, analysis |-> analysis,
     brief |-> brief]
NoAiRet == Ret(FALSE, "none", NoJson, NoClassification, NoAnalysis, <<>>)

\* A variant of classify_ad without the try/except around json.loads.
classify_ad_ParseErrorEscapes(text, json) ==
    IF Parses(Cleaned(text))
    THEN Ret(FALSE, "model", json, NoClassification, NoAnalysis, <<>>)
    ELSE Ret(TRUE, "none", NoJson, NoClassification, NoAnalysis, <<>>)

\* classify_ad(ad_body, ad_title, competitor, brand_category), lines 74-88,
\* given what _call_ai returned and the document its text holds.
classify_ad(text, json) ==
    IF Parses(Cleaned(text))
    THEN Ret(FALSE, "model", json, NoClassification, NoAnalysis, <<>>)
    ELSE Ret(FALSE, "fallback", NoJson, FallbackClassification, NoAnalysis, <<>>)

NoInput ==
    [ad_body |-> "", ad_title |-> "", ads |-> <<>>, analysis |-> NoAnalysis,
     brand_display |-> "", ad_summaries |-> <<>>]

ClassifyAd ==
    /\ ai_pc = "idle"
    /\ \E ad_body \in {"", "Try it today"}, ad_title \in {"", "New"},
          outcome \in AiOutcomes :
         LET call == _call_ai(GEMINI_API_KEY, outcome) IN
         /\ ai_in' = [NoInput EXCEPT !.ad_body = ad_body, !.ad_title = ad_title]
         /\ ai_contacts' = call.contacts
         /\ ai_text' = call.text
         /\ ai_ret' = classify_ad(call.text, outcome.json)
    /\ ai_op' = "classify_ad"
    /\ ai_pc' = "done"
    /\ UNCHANGED GEMINI_API_KEY
    /\ UNCHANGED othervars_ai

\* analyze_batch(ads, brand_key, brand_display) on a non-empty ads, lines
\* 141-148, given what _call_ai returned: the results it can return.
analyze_batch_parse(ad_list, text, json) ==
    IF Parses(Cleaned(text))
    THEN {Ret(FALSE, "model", json, NoClassification, JsonObject(json), <<>>)}
    ELSE {Ret(FALSE, "fallback", NoJson, NoClassification, a, <<>>) :
             a \in _fallback_batch_analysis(ad_list)}

\* A variant of analyze_batch without the `if not ads` of lines 96-97: it
\* asks the model about an empty batch as well.
analyze_batch_NoEmptyCheck(ad_list, key, outcome) ==
    LET call == _call_ai(key, outcome) IN
    IF ad_list = <<>>
    THEN {[ret |-> Ret(FALSE, "empty", NoJson, NoClassification,
                       EmptyBatchObject, <<>>),
           contacts |-> call.contacts, text |-> call.text]}
    ELSE {[ret |-> r, contacts |-> call.contacts, text |-> call.text] :
             r \in analyze_batch_parse(ad_list, call.text, outcome.json)}

\* analyze_batch(ads, brand_key, brand_display): what it can return, the
\* number of calls it makes to the external model, and the text it got.
analyze_batch(ad_list, key, outcome) ==
    IF ad_list = <<>>
    THEN {[ret |-> Ret(FALSE, "empty", NoJson, NoClassification,
                       EmptyBatchObject, <<>>),
           contacts |-> 0, text |-> <<>>]}
    ELSE LET call == _call_ai(key, outcome) IN
         {[ret |-> r, contacts |-> call.contacts, text |-> call.text] :
             r \in analyze_batch_parse(ad_list, call.text, outcome.json)}

BrandDisplays == {"Man Matters", "Be Bodywise"}

\* A persisted ad that has stopped running.
StoppedAd ==
    [competitor_name |-> "Pilgrim", theme |-> "offer_promo",
     media_type |-> "IMAGE", is_active |-> "False",
     is_top_performer |-> "False",
     _competitor |-> Absent, _theme |-> Absent, _is_active |-> Absent,
     _is_top_performer |-> Absent]

\* for ad in ads[:50]
SummaryCap == 50

\* One entry of ad_summaries (its keys that the ad dicts of the model feed).
AdSummary(ad) ==
    [competitor |-> GetOrAlt(ad, "competitor_name", "_competitor", "unknown"),
     theme |-> GetOrAlt(ad, "theme", "_theme", "unknown"),
     media_type |-> GetOr(ad, "media_type", "unknown"),
     is_active |-> GetOrAlt(ad, "is_active", "_is_active", "True")]

\* The ad_summaries of analyze_batch; an empty batch returns before the loop.
ad_summaries(ad_list) ==
    LET n == IF Len(ad_list) <= SummaryCap THEN Len(ad_list) ELSE SummaryCap
    IN [i \in 1..n |-> AdSummary(ad_list[i])]

\* The active_count of _fallback_batch_analysis after its loop.
active_count(ad_list) ==
    Cardinality({i \in DOMAIN ad_list :
        PyTrue(GetOrAlt(ad_list[i], "is_active", "_is_active", "False"))})

AnalyzeBatch ==
    /\ ai_pc = "idle"
    /\ \E ad_list \in AdLists \cup {<<StoppedAd>>, <<SampleAd, StoppedAd>>},
          outcome \in AiOutcomes, brand_display \in BrandDisplays :
         \E run \in analyze_batch(ad_list, GEMINI_API_KEY, outcome) :
            /\ ai_in' = [NoInput EXCEPT !.ads = ad_list,
                                        !.brand_display = brand_display,
                                        !.ad_summaries = ad_summaries(ad_list)]
            /\ ai_contacts' = run.contacts
            /\ ai_text' = run.text
            /\ ai_ret' = run.ret
    /\ ai_op' = "analyze_batch"
    /\ ai_pc' = "done"
    /\ UNCHANGED GEMINI_API_KEY
    /\ UNCHANGED othervars_ai

-----------------------------------------------------------------------------
(* backend/ai_analyzer.py: generate_weekly_brief.  A brief is the sequence *)
(* of the pieces of its text (the dates left out).                         *)

NoDataPhrase == "No competitor ad data available for this period"

\* f"# Weekly Brief - {brand_display}\n\nNo competitor ad data available for
\* this period."
NoDataBrief(brand_display) ==
    <<"# Weekly Brief - ", brand_display, NoDataPhrase, ".">>

\* s.replace('_', ' ')
Spaced(s) ==
    CASE s = "offer_promo" -> "offer promo"
      [] s = "ugc_testimonial" -> "ugc testimonial"
      [] s = "doctor_authority" -> "doctor authority"
      [] s = "community_story" -> "community story"
      [] OTHER -> s

\* analysis.get(key, default) of a dict
FieldOr(analysis, key, default) ==
    IF analysis[key] = Absent THEN default ELSE analysis[key]

Min(a, b) == IF a <= b THEN a ELSE b

\* The list comprehension of lines 248-251 raises: analysis has no .get,
\* its "insights" is null, or one of the first five insights lacks "title"
\* or "detail".
InsightsTextRaises(analysis) ==
    \/ analysis.py # "dict"
    \/ analysis.insights_kind = "null"
    \/ \E i \in 1..Min(5, Len(analysis.insights)) :
           ~({"title", "detail"} \subseteq analysis.insights[i].keys)

\* The template's analysis.get('dominant_theme', ...).replace('_', ' ')
\* raises: the value is null.
TemplateRaises(analysis) == analysis.dominant_theme = NoneStr

\* `not result or "error" in result.lower()`
Unusable(text) == text = <<>> \/ \E i \in DOMAIN text : text[i] = "error"

ActiveCount(ad_list) ==
    Cardinality({i \in DOMAIN ad_list :
        PyTrue(GetOrAlt(ad_list[i], "is_active", "_is_active", "False"))})
TopPerformerCount(ad_list) ==
    Cardinality({i \in DOMAIN ad_list :
        PyTrue(GetOrAlt(ad_list[i], "is_top_performer", "_is_top_performer",
                        "False"))})

\* The fallback brief of lines 281-307.
TemplateBrief(ad_list, analysis, brand_display) ==
    <<"# Weekly Competitive Intelligence Brief - ", brand_display,
      ToString(Len(ad_list)), " ads tracked | ",
      ToString(ActiveCount(ad_list)), " active",
      "## TL;DR",
      FieldOr(analysis, "top_spending_competitor", "multiple brands"),
      Spaced(FieldOr(analysis, "dominant_theme", "UGC testimonial")),
      "## What's Working for Competitors",
      ToString(IF Len(ad_list) # 0
               THEN RoundPct(ActiveCount(ad_list), Len(ad_list)) ELSE 0),
      ToString(TopPerformerCount(ad_list)),
      FieldOr(analysis, "top_spending_competitor", "Leading competitor"),
      "## What's Declining", "## The Gap to Exploit",
      FieldOr(analysis, "underused_format", "CAROUSEL"),
      "## 3 Actions This Week",
      FieldOr(analysis, "underused_format", "carousel"),
      "## One Surprise Finding",
      "Generated by Competitor Ad War Room">>

\* The brief of line 309, around the model's text.
ModelBrief(text, brand_display) ==
    <<"# Weekly Competitive Intelligence Brief - ", brand_display>>
    \o text \o <<"Generated by Competitor Ad War Room">>

BriefRet(raised, source, brief) ==
    Ret(raised, source, NoJson, NoClassification, NoAnalysis, brief)

\* A variant of generate_weekly_brief that asks the model before it looks
\* at ads.
generate_weekly_brief_CallsFirst(brand_display, ad_list, analysis, key, outcome) ==
    LET call == _call_ai(key, outcome) IN
    IF ad_list = <<>>
    THEN [ret |-> BriefRet(FALSE, "no_data", NoDataBrief(brand_display)),
          contacts |-> call.contacts, text |-> call.text]
    ELSE IF InsightsTextRaises(analysis) \/ TemplateRaises(analysis)
    THEN [ret |-> BriefRet(TRUE, "none", <<>>),
          contacts |-> call.contacts, text |-> call.text]
    ELSE IF Unusable(call.text)
    THEN [ret |-> BriefRet(FALSE, "template",
                           TemplateBrief(ad_list, analysis, brand_display)),
          contacts |-> call.contacts, text |-> call.text]
    ELSE [ret |-> BriefRet(FALSE, "model",
                           ModelBrief(call.text, brand_display)),
          contacts |-> call.contacts, text |-> call.text]

\* generate_weekly_brief(brand_key, brand_display, ads, analysis): what it
\* returns, the calls to the external model it makes and the text it got.
generate_weekly_brief(brand_display, ad_list, analysis, key, outcome) ==
    IF ad_list = <<>>
    THEN [ret |-> BriefRet(FALSE, "no_data", NoDataBrief(brand_display)),
          contacts |-> 0, text |-> <<>>]
    ELSE IF InsightsTextRaises(analysis)
    THEN [ret |-> BriefRet(TRUE, "none", <<>>), contacts |-> 0, text |-> <<>>]
    ELSE LET call == _call_ai(key, outcome) IN
         IF Unusable(call.text)
         THEN IF TemplateRaises(analysis)
              THEN [ret |-> BriefRet(TRUE, "none", <<>>),
                    contacts |-> call.contacts, text |-> call.text]
              ELSE [ret |-> BriefRet(FALSE, "template",
                               TemplateBrief(ad_list, analysis, brand_display)),
                    contacts |-> call.contacts, text |-> call.text]
         ELSE [ret |-> BriefRet(FALSE, "model",
                                ModelBrief(call.text, brand_display)),
               contacts |-> call.contacts, text |-> call.text]

\* The analysis objects analyze_batch can return.
AnalysisInputs(ad_list) ==
    {EmptyBatchObject} \cup {JsonObject(j) : j \in JsonValues}
    \cup (IF ad_list = <<>> THEN {} ELSE _fallback_batch_analysis(ad_list))

GenerateWeeklyBrief ==
    /\ ai_pc = "idle"
    /\ \E ad_list \in AdLists, outcome \in TextOutcomes,
          brand_display \in {"Man Matters"} :
         \E analysis \in AnalysisInputs(ad_list) :
            LET run == generate_weekly_brief(brand_display, ad_list, analysis,
                                             GEMINI_API_KEY, outcome) IN
               /\ ai_in' = [NoInput EXCEPT !.ads = ad_list,
                            !.analysis = analysis,
                            !.brand_display = brand_display]
            /\ ai_contacts' = run.contacts
            /\ ai_text' = run.text
            /\ ai_ret' = run.ret
    /\ ai_op' = "generate_weekly_brief"
    /\ ai_pc' = "done"
    /\ UNCHANGED GEMINI_API_KEY
    /\ UNCHANGED othervars_ai

\* The caller takes what the operation returned.
AiCallerContinues ==
    /\ ai_pc = "done"
    /\ ai_pc' = "idle"
    /\ ai_op' = "none"
    /\ ai_in' = NoInput
    /\ ai_contacts' = 0
    /\ ai_text' = <<>>
    /\ ai_ret' = NoAiRet
    /\ UNCHANGED GEMINI_API_KEY
    /\ UNCHANGED othervars_ai

\* GEMINI_API_KEY = os.environ.get("GEMINI_API_KEY", ""), read once at import.
InitAI ==
    /\ GEMINI_API_KEY \in BOOLEAN
    /\ ai_pc = "idle"
    /\ ai_op = "none"
    /\ ai_in = NoInput
    /\ ai_contacts = 0
    /\ ai_text = <<>>
    /\ ai_ret = NoAiRet

NextAI == ClassifyAd \/ AnalyzeBatch \/ GenerateWeeklyBrief \/ AiCallerContinues

-----------------------------------------------------------------------------
InitDb ==
    /\ table = {}
    /\ supplied = [id \in AllIds |-> NeverSupplied]
    /\ upserted = {}
    /\ db_call = NoCall
    /\ briefs = <<>>
    /\ runs = 0

NextDb == UpsertAd \/ UpsertSampleAd \/ GetAds \/ DbCallerContinues


-----------------------------------------------------------------------------
Init ==
    /\ InitDb /\ InitFetch /\ InitAI /\ InitFallback /\ InitSample /\ InitSeed
    /\ InitConcurrent

\* The components that make no use of the credential, in a process that
\* has none.
InitNoKey == Init /\ ~GEMINI_API_KEY

SpecDb == InitNoKey /\ [][NextDb]_vars
SpecStore == InitNoKey /\ [][NextStore]_vars
SpecFetch == InitNoKey /\ [][NextFetch]_vars
SpecFallback == InitNoKey /\ [][NextFallback]_vars
SpecSample == InitNoKey /\ [][NextSample]_vars
SpecSeed == InitNoKey /\ [][NextSeed]_vars
SpecConcurrent == InitNoKey /\ [][NextConcurrent]_vars
SpecAI == Init /\ [][NextAI]_vars

-----------------------------------------------------------------------------
(* The persistence layer's claims (SpecDb).                                *)

\* C1: after any sequence of upsert_ad calls the ads table holds at most one
\* row per id (exactly one for an id that was upserted), and every field of
\* the row has the value the most recent upsert_ad call for that id that
\* contained the field supplied: last write wins.
C1_LastWriteWins ==
    /\ \A r1 \in table, r2 \in table : r1["id"] = r2["id"] => r1 = r2
    /\ \A id \in upserted : \E r \in table : r["id"] = id
    /\ \A r \in table :
         LET last == supplied[r["id"]] IN
         /\ r["id"] \in upserted
         /\ last["competitor_name"] # Absent =>
                r["competitor_name"] = last["competitor_name"]
         /\ last["ad_body"] # Absent => r["ad_body"] = last["ad_body"]
         /\ last["media_type"] # Absent => r["media_type"] = last["media_type"]
         /\ last["ad_delivery_start_time"] # AbsentTime =>
                r["ad_delivery_start_time"] = last["ad_delivery_start_time"]

\* C1's case: a second upsert_ad for an id gave another ad_body than the row
\* had, and the one row of that id carries the second ad_body.
C1_Witness ==
    /\ db_call.op = "upsert_ad"
    /\ db_call.path = "update"
    /\ db_call.overwrote
    /\ Cardinality(RowsWithId(table, db_call.id)) = 1
    /\ \A r \in RowsWithId(table, db_call.id) : r["ad_body"] \in AdBodies

\* C2: round trip. After upsert_ad(db, r) for a record r of
\* generate_sample_ads(competitor_name, brand_key), every list that
\* get_ads(db, competitor_name=competitor_name) can return holds a row with
\* r's id and r's media_type.
C2_SampleRoundTrip ==
    db_call.op = "upsert_sample" =>
        \A rows \in get_ads(table, db_call.competitor_name, NoneStr, NoneDays,
                            DefaultLimit, 0) :
            \E n \in DOMAIN rows :
                /\ rows[n]["id"] = db_call.id
                /\ rows[n]["media_type"] = db_call.media_type

-----------------------------------------------------------------------------
(* The ad library client's claims (SpecFetch).                             *)

Requests(tr) == SelectSeq(tr, LAMBDA e : e.ev = "get")

RECURSIVE ConcatData(_)
ConcatData(ps) ==
    IF ps = <<>> THEN <<>>
    ELSE ConcatData(SubSeq(ps, 1, Len(ps) - 1)) \o ps[Len(ps)].result.data

InFetch == client_ret.op = "fetch_all_ads_for_competitor"

\* C3: fetch_all_ads_for_competitor issues at most max_pages search_ads
\* requests, for every max_pages >= 0, and no request after the first
\* response that lacks paging.cursors.after or paging.next.
C3_AtMostMaxPages ==
    InFetch =>
        /\ Len(Requests(trace)) <= max_pages
        /\ \A i \in DOMAIN pages :
             ~(Truthy(pages[i].result.after) /\ pages[i].result.next)
                => i = Len(pages)

\* C4: in one fetch_all_ads_for_competitor call the first request carries no
\* cursor, every later request carries the paging.cursors.after of the
\* response just before it, each request is answered before the next is
\* sent, and the list built is the concatenation of the pages' data lists in
\* the order fetched.
C4_CursorOrder ==
    InFetch =>
        LET reqs == Requests(trace) IN
        /\ Len(reqs) = Len(pages)
        /\ reqs[1].after = NoneStr
        /\ \A i \in 2..Len(reqs) :
             /\ Truthy(pages[i - 1].result.after)
             /\ reqs[i].after = pages[i - 1].result.after
        /\ ads = ConcatData(pages)

\* C4's case: a call that fetched two pages or more, with different data,
\* has returned.
C4_Witness ==
    /\ InFetch
    /\ f_pc = "done"
    /\ Len(pages) >= 2
    /\ pages[1].result.data # <<>>
    /\ pages[2].result.data # <<>>
    /\ pages[1].result.data # pages[2].result.data
    /\ pages[1].result.after # pages[2].result.after

FailedPage(pg) == pg.kind \in TransportFailures \cup {"error_payload"}

\* C5: search_ads does not raise on a request failure: on a transport
\* failure (connection error, timeout, error status) or an error payload it
\* returns data = [], paging = {} and an error field; so a failing page is
\* the last page of fetch_all_ads_for_competitor, which returns the ads of
\* the pages before. No operation of the client raises while every body
\* the server sends is a JSON object.
C5_NeverRaises ==
    /\ client_ret.raised =>
            /\ InFetch
            /\ pages[Len(pages)].kind = "json_null"
    /\ \A i \in DOMAIN pages :
         /\ pages[i].result.raised => pages[i].kind = "json_null"
         /\ FailedPage(pages[i]) =>
              /\ ~pages[i].result.raised
              /\ ~client_ret.raised
              /\ pages[i].result.data = <<>>
              /\ pages[i].result.after = NoneStr
              /\ ~pages[i].result.next
              /\ pages[i].result.error
              /\ i = Len(pages)
              /\ ads = ConcatData(SubSeq(pages, 1, i - 1))

\* C5's case: a later page failed with an error status and the call
\* returned the ads of the earlier pages.
C5_Witness ==
    /\ InFetch
    /\ f_pc = "done"
    /\ Len(pages) >= 2
    /\ pages[Len(pages)].kind = "http_error"
    /\ ads # <<>>

\* C6: every request of the client (search_ads, get_page_id, validate_token)
\* comes right after a sleep of the rate-limit delay, in the same operation.
C6_SleepBeforeEveryRequest ==
    \A i \in DOMAIN trace :
        trace[i].ev = "get" =>
            /\ i > 1
            /\ trace[i - 1].ev = "sleep"
            /\ trace[i - 1].ms = RateLimitSleepMs

-----------------------------------------------------------------------------
(* The AI analysis engine's claims (SpecAI).                               *)

AiDone(op) == ai_pc = "done" /\ ai_op = op

InputNonEmpty ==
    IF ai_op = "classify_ad"
    THEN ai_in.ad_body # "" \/ ai_in.ad_title # ""
    ELSE ai_in.ads # <<>>

ReturnedFallback ==
    /\ ~ai_ret.raised
    /\ ai_ret.source = (IF ai_op = "generate_weekly_brief"
                        THEN "template" ELSE "fallback")

\* C7: an invocation of classify_ad, analyze_batch or generate_weekly_brief
\* calls the external model at most once: never without a credential, once
\* with a credential and a non-empty input, and after a failed call or an
\* unusable output it returns its fallback with no second call.
C7_OneCallNoRetry ==
    ai_pc = "done" =>
        /\ ai_contacts <= 1
        /\ ~GEMINI_API_KEY => ai_contacts = 0
        /\ (GEMINI_API_KEY /\ InputNonEmpty) => ai_contacts = 1
        /\ (ai_contacts = 1 /\ ai_text = <<>>) => ReturnedFallback

\* C8: classify_ad does not raise, and without a credential, after a failed
\* call, or when what the model returned does not parse as JSON (once the
\* markdown fence around it is stripped) it returns the fixed object, for
\* every ad_body and ad_title, the empty ones included.
C8_ClassifyFallback ==
    AiDone("classify_ad") =>
        /\ ~ai_ret.raised
        /\ (~GEMINI_API_KEY \/ ai_text = <<>> \/ ~Parses(Cleaned(ai_text))) =>
              /\ ai_ret.source = "fallback"
              /\ ai_ret.classification =
                    [theme |-> "unknown", sentiment |-> "unknown",
                     cta_type |-> "unknown",
                     creative_angle |-> "Could not analyze",
                     has_price_mention |-> FALSE, has_social_proof |-> FALSE,
                     has_expert_endorsement |-> FALSE]

\* C8's case: with a credential, the model answered empty ad texts with a
\* JSON value among prose, which does not parse.
C8_Witness ==
    /\ AiDone("classify_ad")
    /\ GEMINI_API_KEY
    /\ ai_contacts = 1
    /\ ai_in.ad_body = ""
    /\ ai_in.ad_title = ""
    /\ HasValue(ai_text)
    /\ ~Parses(Cleaned(ai_text))
    /\ ai_ret.source = "fallback"

\* C9: generate_weekly_brief does not raise, whatever the ads and whichever
\* analysis object analyze_batch can return, and with no usable model text
\* it returns the fixed-template brief.
C9_BriefNeverRaises ==
    AiDone("generate_weekly_brief") =>
        /\ ~ai_ret.raised
        /\ (ai_in.ads # <<>> /\ Unusable(ai_text)) => ai_ret.source = "template"

\* C10: generate_weekly_brief with an empty ads list returns a text that
\* holds "No competitor ad data available for this period" and does not
\* call the external model, with or without a credential.
C10_EmptyAdsBrief ==
    (AiDone("generate_weekly_brief") /\ ai_in.ads = <<>>) =>
        /\ ~ai_ret.raised
        /\ \E i \in DOMAIN ai_ret.brief :
              ai_ret.brief[i] = "No competitor ad data available for this period"
        /\ ai_contacts = 0

\* C10's case: a credential is configured and the call came with an empty
\* ads list and an analysis that is no dict.
C10_Witness ==
    /\ AiDone("generate_weekly_brief")
    /\ GEMINI_API_KEY
    /\ ai_in.ads = <<>>
    /\ ai_in.analysis.py = "list"
    /\ ai_ret.source = "no_data"

\* C11: analyze_batch with an empty ads list returns exactly
\* {"insights": [], "summary": "No ads to analyze."}, for every
\* brand_display and with or without a credential; it does not call the
\* model and what it returns is not the fallback analysis.
C11_EmptyBatch ==
    (AiDone("analyze_batch") /\ ai_in.ads = <<>>) =>
        /\ ~ai_ret.raised
        /\ ai_ret.analysis =
              [py |-> "dict", insights_kind |-> "list", insights |-> <<>>,
               dominant_theme |-> Absent, rising_theme |-> Absent,
               underused_format |-> Absent,
               top_spending_competitor |-> Absent,
               summary |-> "No ads to analyze.",
               pct_theme |-> -1, pct_media |-> -1, pct_top |-> -1]
        /\ ai_contacts = 0
        /\ ai_ret.source # "fallback"

\* C11's case: a credential is configured and analyze_batch has returned
\* for an empty ads list.
C11_Witness ==
    /\ AiDone("analyze_batch")
    /\ GEMINI_API_KEY
    /\ ai_in.ads = <<>>
    /\ ai_in.brand_display = "Man Matters"
    /\ ai_ret.source = "empty"

-----------------------------------------------------------------------------
(* The fallback batch analysis' claims (SpecFallback).                     *)

FbDone == fb_pc = "done"
FbThemes == [i \in DOMAIN fb_ads |-> ThemeOf(fb_ads[i])]
FbCompetitors == [i \in DOMAIN fb_ads |-> CompetitorOf(fb_ads[i])]
FbObserved == {MediaTypeOf(fb_ads[i]) : i \in DOMAIN fb_ads}
FbUnobserved == {"IMAGE", "VIDEO", "CAROUSEL"} \ FbObserved
MostFrequent(values, v) ==
    /\ Count(values, v) > 0
    /\ \A i \in DOMAIN values : Count(values, values[i]) <= Count(values, v)
\* p is 100 * num / den rounded to a nearest integer
Nearest(p, num, den) ==
    /\ 2 * (p * den - 100 * num) <= den
    /\ 2 * (100 * num - p * den) <= den

\* C12: for a non-empty ads list the fallback batch analysis returns five
\* insights of the types trend, trend, opportunity, top_performer, warning in
\* this order, dominant_theme a most frequent theme of the ads, rising_theme
\* "ugc_testimonial" and top_spending_competitor a most frequent competitor
\* name.
C12_FiveInsights ==
    FbDone =>
        /\ fb_ret.py = "dict"
        /\ fb_ret.insights_kind = "list"
        /\ Len(fb_ret.insights) = 5
        /\ [i \in 1..5 |-> fb_ret.insights[i].type] =
              <<"trend", "trend", "opportunity", "top_performer", "warning">>
        /\ MostFrequent(FbThemes, fb_ret.dominant_theme)
        /\ fb_ret.rising_theme = "ugc_testimonial"
        /\ MostFrequent(FbCompetitors, fb_ret.top_spending_competitor)

\* C12's case: a batch in which one theme and one competitor are in the
\* majority and another theme came first.
C12_Witness ==
    /\ FbDone
    /\ Len(fb_ads) >= 3
    /\ ThemeOf(fb_ads[1]) # fb_ret.dominant_theme
    /\ CompetitorOf(fb_ads[1]) # fb_ret.top_spending_competitor
    /\ \A i \in DOMAIN fb_ads :
          FbThemes[i] # fb_ret.dominant_theme =>
             Count(FbThemes, FbThemes[i]) < Count(FbThemes, fb_ret.dominant_theme)

\* C13: underused_format is one of IMAGE, VIDEO, CAROUSEL that does not
\* occur among the media types of the ads when one of the three is
\* unobserved, and CAROUSEL when all three are observed; a batch of IMAGE
\* and VIDEO ads only gives CAROUSEL.  (The media type of an ad without the
\* key counts as IMAGE.)
C13_UnderusedFormat ==
    FbDone =>
        /\ FbUnobserved # {} => fb_ret.underused_format \in FbUnobserved
        /\ FbUnobserved = {} => fb_ret.underused_format = "CAROUSEL"
        /\ FbObserved = {"IMAGE", "VIDEO"} =>
              fb_ret.underused_format = "CAROUSEL"

\* C13's case: every ad of the batch is an IMAGE or a VIDEO ad, both occur.
C13_Witness ==
    /\ FbDone
    /\ FbObserved = {"IMAGE", "VIDEO"}
    /\ \A i \in DOMAIN fb_ads : fb_ads[i]["media_type"] \in {"IMAGE", "VIDEO"}
    /\ fb_ret.underused_format = "CAROUSEL"

\* C14: the fallback batch analysis is deterministic: any other run on the
\* same ads list returns what this run returned, underused_format included.
C14_FallbackDeterministic ==
    FbDone => \A other \in _fallback_batch_analysis(fb_ads) : other = fb_ret

\* C15: the percentage of the dominant theme is its count over the number
\* of ads, times 100, rounded to an integer; the three percentages lie in
\* 0..100; 10 ads of which 6 have the theme offer_promo give 60% and
\* dominant_theme = offer_promo.
C15_Percentages ==
    FbDone =>
        /\ Nearest(fb_ret.pct_theme,
                   Count(FbThemes, fb_ret.dominant_theme), Len(fb_ads))
        /\ fb_ret.pct_theme \in 0..100
        /\ fb_ret.pct_media \in 0..100
        /\ fb_ret.pct_top \in 0..100
        /\ (Len(fb_ads) = 10 /\ Count(FbThemes, "offer_promo") = 6) =>
              /\ fb_ret.pct_theme = 60
              /\ fb_ret.dominant_theme = "offer_promo"

\* C15's case: 10 ads, 6 of them with the theme offer_promo.
C15_Witness ==
    /\ FbDone
    /\ Len(fb_ads) = 10
    /\ Count(FbThemes, "offer_promo") = 6
    /\ fb_ret.pct_theme = 60

-----------------------------------------------------------------------------
(* The sample data generator's claims (SpecSample).                        *)

\* C16: generate_sample_ads(competitor_name, brand_key, count) returns count
\* records, each with a media_type of IMAGE, VIDEO, CAROUSEL, run days that
\* are not negative, and marked top performer exactly when its run days are
\* more than 30.
C16_SampleRecords ==
    sg_pc = "done" =>
        /\ Len(sg_ads) = sg_args.count
        /\ \A i \in DOMAIN sg_ads :
             /\ sg_ads[i]["media_type"] \in {"IMAGE", "VIDEO", "CAROUSEL"}
             /\ sg_ads[i]["_run_days"] >= 0
             /\ sg_ads[i]["_is_top_performer"] <=> sg_ads[i]["_run_days"] > 30

\* C16's case: two records were asked for; one ran 30 days, the other has
\* stopped after 31 days.
C16_Witness ==
    /\ sg_pc = "done"
    /\ sg_args.count = 2
    /\ sg_ads[1]["_run_days"] = 30
    /\ ~sg_ads[1]["_is_top_performer"]
    /\ ~sg_ads[2]["_is_active"]
    /\ sg_ads[2]["_run_days"] = 31
    /\ sg_ads[2]["_is_top_performer"]

-----------------------------------------------------------------------------
(* More claims of the persistence layer (SpecDb).                          *)

StartKey(r) == TimeKey(r["ad_delivery_start_time"])

\* The rows a get_ads call is to choose from: those its competitor_name and
\* media_type arguments select and, with days_back given, those that
\* started no more than days_back days before the query.
Wanted(r) ==
    /\ Truthy(db_call.competitor_name) =>
          r["competitor_name"] = db_call.competitor_name
    /\ Truthy(db_call.media_type) => r["media_type"] = db_call.media_type
    /\ db_call.days_back # NoneDays =>
          /\ r["ad_delivery_start_time"].kind = "datetime"
          /\ db_call.now - r["ad_delivery_start_time"].t <= db_call.days_back

\* C17: get_ads with days_back = N given returns no ad that started more
\* than N days before the query; its rows come latest start first; it
\* returns at most limit rows, and no row left out started later than a row
\* returned.
C17_DaysBackOrderLimit ==
    db_call.op = "get_ads" =>
        LET rows == db_call.rows IN
        /\ \A n \in DOMAIN rows : rows[n] \in table /\ Wanted(rows[n])
        /\ \A n \in DOMAIN rows, m \in DOMAIN rows :
              n < m => StartKey(rows[n]) >= StartKey(rows[m])
        /\ Len(rows) <= db_call.limit
        /\ \A r \in table :
              (Wanted(r) /\ \A n \in DOMAIN rows : rows[n] # r) =>
                 /\ Len(rows) = db_call.limit
                 /\ \A n \in DOMAIN rows : StartKey(rows[n]) >= StartKey(r)

\* C19: upsert_ad of an id that has a row leaves every attribute of the row
\* that ad_data does not name as it was; every other row stays as it was
\* (none added, none removed); a key of ad_data that is no schema field
\* makes neither the insert nor the update raise.
C19_Frame ==
    [][db_call'.op = "upsert_ad" =>
        /\ "_competitor" \in db_call'.keys => ~db_call'.raised
        /\ \A r \in table : r["id"] # db_call'.id => r \in table'
        /\ \A r \in table' : r["id"] # db_call'.id => r \in table
        /\ \A r \in table : r["id"] = db_call'.id =>
              \E q \in table' :
                 /\ q["id"] = r["id"]
                 /\ "competitor_name" \notin db_call'.keys =>
                       q["competitor_name"] = r["competitor_name"]
                 /\ "ad_body" \notin db_call'.keys => q["ad_body"] = r["ad_body"]
                 /\ "media_type" \notin db_call'.keys =>
                       q["media_type"] = r["media_type"]
                 /\ "ad_delivery_start_time" \notin db_call'.keys =>
                       q["ad_delivery_start_time"] = r["ad_delivery_start_time"]
                 /\ q["brand_key"] = r["brand_key"]
                 /\ q["theme"] = r["theme"]
                 /\ q["is_active"] = r["is_active"]
                 /\ q["is_top_performer"] = r["is_top_performer"]]_vars

\* C19's case: an update whose ad_data held a key that is no schema field
\* and no ad_body, on a row that has an ad_body, with another row in the
\* table.
C19_Witness ==
    /\ db_call.op = "upsert_ad"
    /\ db_call.path = "update"
    /\ ~db_call.raised
    /\ "_competitor" \in db_call.keys
    /\ "ad_body" \notin db_call.keys
    /\ "media_type" \in db_call.keys
    /\ \E r \in table : r["id"] = db_call.id /\ r["ad_body"] \in AdBodies
    /\ \E r \in table : r["id"] # db_call.id

\* The rows get_stats counts: all of them, or the brand's when brand_key is
\* supplied.
Scope == {r \in table : Truthy(db_call.brand_key) => r["brand_key"] = db_call.brand_key}

Keys(breakdown) == {e.key : e \in breakdown}

\* C18: get_stats returns a media_breakdown with exactly the keys IMAGE,
\* VIDEO and CAROUSEL (0 for a type without ads); top_performers and
\* active_ads are at most total_ads; the counts of each breakdown sum to at
\* most total_ads; with brand_key supplied every count covers that brand's
\* ads only.
C18_Stats ==
    db_call.op = "get_stats" =>
        LET st == db_call.stats IN
        /\ Keys(st.media_breakdown) = {"IMAGE", "VIDEO", "CAROUSEL"}
        /\ Cardinality(st.media_breakdown) = 3
        /\ \A e \in st.media_breakdown :
               (\A r \in Scope : r["media_type"] # e.key) => e.count = 0
        /\ st.top_performers <= st.total_ads
        /\ st.active_ads <= st.total_ads
        /\ SumCounts(st.media_breakdown) <= st.total_ads
        /\ SumCounts(st.theme_breakdown) <= st.total_ads
        /\ SumCounts(st.competitor_breakdown) <= st.total_ads
        /\ Truthy(db_call.brand_key) =>
               /\ st.total_ads = Cardinality(Scope)
               /\ st.active_ads <= Cardinality({r \in Scope : r["is_active"] = "True"})
               /\ st.top_performers <= Cardinality({r \in Scope : r["is_top_performer"] = "True"})
               /\ \A e \in st.media_breakdown :
                      e.count = Cardinality({r \in Scope : r["media_type"] = e.key})
               /\ \A e \in st.theme_breakdown :
                      e.count = Cardinality({r \in Scope : r["theme"] = e.key})
               /\ \A e \in st.competitor_breakdown :
                      e.count = Cardinality({r \in Scope : r["competitor_name"] = e.key})

\* get_stats for one brand on a store holding ads of both brands, one of
\* them with a media type outside the three.
C18_Witness ==
    /\ db_call.op = "get_stats"
    /\ db_call.brand_key = "bebodywise"
    /\ \E r \in table : r["brand_key"] = "manmatters" /\ r["theme"] = "offer_promo"
    /\ db_call.stats.total_ads = 1
    /\ SumCounts(db_call.stats.media_breakdown) = 0
    /\ db_call.stats.theme_breakdown = {}

AdIds(tbl) == {r["id"] : r \in tbl}

\* C20: no operation of the persistence layer deletes an ad: across init_db,
\* upsert_ad, get_ads, get_stats, save_weekly_brief, get_latest_brief and
\* save_run the set of stored ad ids only grows.
C20_NoDelete == [][AdIds(table) \subseteq AdIds(table')]_vars

\* Both ids are stored, a brief and a run have been saved, and a later call
\* has completed.
C20_Witness ==
    /\ AdIds(table) = MetaIds
    /\ Len(briefs) = 1
    /\ runs = 1
    /\ db_call.op \in {"get_stats", "get_ads", "init_db", "get_latest_brief"}

-----------------------------------------------------------------------------
(* Claims of the registry and of seeding (SpecSeed).                       *)

RECURSIVE CompetitorsBefore(_, _)
CompetitorsBefore(brands, b) ==
    IF b <= 1 THEN 0
    ELSE Len(brands[b - 1].competitors) + CompetitorsBefore(brands, b - 1)

KnownKeys == {"bebodywise", "manmatters", "littlejoys"}

-----------------------------------------------------------------------------
(* The projection of analyze_batch (SpecAI).                               *)

\* The value a field of the projection is to take: the primary key's when
\* the ad holds it, else the alternate key's when the ad holds that, else
\* the default.
PrimaryFirst(ad, key, alt, default) ==
    IF ad[key] # Absent THEN ad[key]
    ELSE IF ad[alt] # Absent THEN ad[alt] ELSE default

\* C22: in the projection of analyze_batch every field takes the value of
\* its primary key whenever the ad holds that key, and falls back to the
\* underscore key and then to the default only when it does not; an ad
\* whose is_active is false is projected with is_active false, and the
\* active count of the fallback analysis agrees with the projection.
C22_PrimaryKeyFirst ==
    (AiDone("analyze_batch") /\ InputNonEmpty) =>
        LET batch == ai_in.ads
            projected == ai_in.ad_summaries
        IN /\ Len(projected) = Len(batch)
           /\ \A i \in DOMAIN batch :
                /\ projected[i].competitor =
                      PrimaryFirst(batch[i], "competitor_name", "_competitor", "unknown")
                /\ projected[i].theme =
                      PrimaryFirst(batch[i], "theme", "_theme", "unknown")
                /\ projected[i].is_active =
                      PrimaryFirst(batch[i], "is_active", "_is_active", "True")
                /\ batch[i]["is_active"] = "False" => projected[i].is_active = "False"
           /\ Cardinality({i \in DOMAIN projected : projected[i].is_active = "True"})
                = active_count(batch)

-----------------------------------------------------------------------------
(* More claims of generate_sample_ads (SpecSample).                        *)

\* C23: generate_sample_ads has no error outcome: whatever competitor_name,
\* brand_key, count and days_range it is given, it returns a list and never
\* raises.
C23_SampleNeverRaises == sg_pc # "raised"

\* The time a record's strftime string stands for.
TimeOf(v) == v.t

\* C26: every record of generate_sample_ads has consistent timing fields: it
\* is active exactly when it has no delivery stop time, a stopped record's
\* stop time is not after the generation time, and its run days are at most
\* the days from its delivery start time to the generation time.
C26_TimingConsistent ==
    sg_pc = "done" =>
        \A i \in DOMAIN sg_ads :
            LET ad == sg_ads[i] IN
            /\ ad["_is_active"] <=> ad["ad_delivery_stop_time"] = NoneTime
            /\ ~ad["_is_active"] =>
                  TimeOf(ad["ad_delivery_stop_time"]) <= sg_args.now
            /\ ad["_run_days"] <= sg_args.now - TimeOf(ad["ad_delivery_start_time"])

-----------------------------------------------------------------------------
(* The ids of generated records (SpecSeed).                                *)

PairwiseDistinctIds(records) ==
    \A i \in DOMAIN records, j \in DOMAIN records :
        i # j => records[i].id # records[j].id

\* C25: the ids of the records of one seed_all_sample_data call are pairwise
\* distinct, and so are the ids of the records of any two
\* generate_sample_ads calls, for the same or for different competitors, so
\* that no generated record overwrites another when all are upserted.
C25_DistinctIds ==
    /\ seed_pc = "done" => PairwiseDistinctIds(all_ads)
    /\ \A m \in DOMAIN generated, n \in DOMAIN generated :
          m # n => PairwiseDistinctIds(generated[m] \o generated[n])

-----------------------------------------------------------------------------
(* Callers whose upsert_ad calls interleave (SpecConcurrent).              *)

OneRowPerId ==
    \A r \in table : Cardinality(RowsWithId(table, r["id"])) = 1

\* C24 as stated: with the lookup and the insert or update steps of several
\* callers' upsert_ad calls for one id interleaved, the store never holds
\* two rows with that id, and every call that returns normally has its
\* ad_data reflected in a committed state of the row.
C24_NoLostWrite ==
    /\ OneRowPerId
    /\ \A c \in Callers : callers[c].pc = "returned" => callers[c].reflected

\* C24, amended: the store never holds two rows with that id; a call that
\* returns normally from the insert path has committed a row that holds its
\* ad_data; a call that returns normally from the update path has committed
\* the values that differ from the row it looked up, and the row may hold
\* another caller's value where ad_data repeats the value looked up.
C24_ChangedValuesCommitted ==
    /\ OneRowPerId
    /\ \A c \in Callers :
          LET call == callers[c] IN
          call.pc = "returned" =>
              /\ call.after["id"] = call.ad_data["id"]
              /\ ~call.found => Reflects(call.after, call.ad_data)
              /\ call.found =>
                    \A k \in DataFields :
                        (HasKey(call.ad_data, k) /\ call.ad_data[k] # call.existing[k])
                            => call.after[k] = call.ad_data[k]

\* A call has returned from the update path after another caller's commit
\* came between its lookup and its own commit: it has written one column,
\* and the row holds the other caller's value in a column for which the
\* call's ad_data repeats the value it looked up.
C24_Witness ==
    \E c \in Callers :
        /\ callers[c].pc = "returned"
        /\ callers[c].found
        /\ callers[c].ad_data["media_type"] = "VIDEO"
        /\ callers[c].existing["media_type"] = "IMAGE"
        /\ callers[c].after["media_type"] = "VIDEO"
        /\ callers[c].ad_data["ad_body"] = "body one"
        /\ callers[c].after["ad_body"] = "body two"

=============================================================================
